---- MODULE Spec2Model ----
(***************************************************************************)
(* Verification model of factor_tilt_analyzer: the minimum-variance        *)
(* portfolio optimizer (analysis/minimum_variance_portfolio.py), the       *)
(* statistics engine (analysis/portfolio_statistics.py), the factor        *)
(* regression engine and the exposure chart                                *)
(* (analysis/portfolio_analyzer.py), the date helper                       *)
(* (data/data_fetcher.py), the ticker check                                *)
(* (utils/validity_input_check.py) and the command-line program (main.py). *)
(*                                                                         *)
(* Numbers.  The code computes in IEEE double precision.  The model        *)
(* computes in exact rational arithmetic extended with the IEEE special    *)
(* values the code can produce or receive: not-a-number and the two        *)
(* infinities.  Rounding and overflow of doubles are not modelled.         *)
(* A number is a record [k, n, d]: k = "fin" is the rational n/d in lowest *)
(* terms with d > 0; k = "nan" is not-a-number; k = "inf" is the infinity  *)
(* of sign n.  An irrational square root is kept symbolically: k = "sqrt"  *)
(* is sign(n) * sqrt(|n|/d), |n|/d in lowest terms and not a square.       *)
(***************************************************************************)
EXTENDS Integers, Sequences, FiniteSets, TLC

VARIABLES pc, returns_df, portfolio_returns, interval, result,
          mkt_returns, factor_files, log, events, previous, val,
          in_end, in_period, tickers, api, betas, width, scale, stdout,
          user_input, mkt_benchmark_ticker

vars ==
    <<pc, returns_df, portfolio_returns, interval, result,
      mkt_returns, factor_files, log, events, previous, val,
      in_end, in_period, tickers, api, betas, width, scale, stdout,
      user_input, mkt_benchmark_ticker>>

\* the state of the factor regression, the comparison and the interpretation
\* helper, which the optimizer and the statistics engine neither read nor write
analyzerVars == <<mkt_returns, factor_files, log, events, previous, val>>

\* the state of the date helper, the ticker check, the exposure chart and the
\* benchmark prompt
cliVars == <<in_end, in_period, tickers, api, betas, width, scale, stdout,
             user_input, mkt_benchmark_ticker>>

(***************************************************************************)
(* Bounds of the model.                                                    *)
(***************************************************************************)
MaxRows == 4
MaxCols == 2
MaxLen == 3

(***************************************************************************)
(* Arithmetic.                                                             *)
(***************************************************************************)
Abs(x) == IF x < 0 THEN -x ELSE x

Sign(x) == IF x < 0 THEN -1 ELSE IF x > 0 THEN 1 ELSE 0

RECURSIVE Gcd(_, _)
Gcd(a, b) == IF b = 0 THEN a ELSE Gcd(b, a % b)

NaN == [k |-> "nan", n |-> 0, d |-> 1]

Inf(s) == [k |-> "inf", n |-> s, d |-> 1]

Fin(n, d) ==
    LET g == Gcd(Abs(n), Abs(d))
        s == IF d < 0 THEN -1 ELSE 1
    IN  [k |-> "fin", n |-> (s * n) \div g, d |-> (s * d) \div g]

Int2Num(i) == [k |-> "fin", n |-> i, d |-> 1]

IsFinite(x) == x.k \in {"fin", "sqrt"}
IsNaN(x) == x.k = "nan"

\* x + y on doubles
Add(x, y) ==
    IF x.k = "nan" \/ y.k = "nan" THEN NaN
    ELSE IF x.k = "inf" /\ y.k = "inf" THEN (IF x.n = y.n THEN x ELSE NaN)
    ELSE IF x.k = "inf" THEN x
    ELSE IF y.k = "inf" THEN y
    ELSE Fin(x.n * y.d + y.n * x.d, x.d * y.d)

\* the real number s * sqrt(q), for a sign s and a rational q >= 0: a rational
\* when q is the square of one, and a symbolic square root otherwise; ISqrt
\* is the integer square root of n >= 0, by bisection on lo..hi
Surd(s, q) ==
    LET RECURSIVE ISqrtIn(_, _, _)
        ISqrtIn(n, lo, hi) ==
            IF lo >= hi THEN lo
            ELSE LET mid == (lo + hi + 1) \div 2
                 IN  IF mid * mid <= n THEN ISqrtIn(n, mid, hi)
                     ELSE ISqrtIn(n, lo, mid - 1)
        ISqrt(n) == ISqrtIn(n, 0, n)
    IN
    IF s = 0 \/ q.n = 0 THEN [k |-> "fin", n |-> 0, d |-> 1]
    ELSE IF ISqrt(q.n) * ISqrt(q.n) = q.n /\ ISqrt(q.d) * ISqrt(q.d) = q.d
    THEN [k |-> "fin", n |-> s * ISqrt(q.n), d |-> ISqrt(q.d)]
    ELSE [k |-> "sqrt", n |-> s * q.n, d |-> q.d]

\* the square of a finite number, as a rational
Square(x) == IF x.k = "sqrt" THEN Fin(Abs(x.n), x.d) ELSE Fin(x.n * x.n, x.d * x.d)

\* x * y on doubles
Mul(x, y) ==
    IF x.k = "nan" \/ y.k = "nan" THEN NaN
    ELSE IF x.k = "inf" \/ y.k = "inf"
         THEN (IF Sign(x.n) * Sign(y.n) = 0 THEN NaN ELSE Inf(Sign(x.n) * Sign(y.n)))
    ELSE IF x.k = "fin" /\ y.k = "fin" THEN Fin(x.n * y.n, x.d * y.d)
    ELSE Surd(Sign(x.n) * Sign(y.n),
              Fin(Square(x).n * Square(y).n, Square(x).d * Square(y).d))

Neg(x) == IF x.k = "nan" THEN NaN ELSE [x EXCEPT !.n = -x.n]

Sub(x, y) == Add(x, Neg(y))

\* x / y on numpy doubles: a zero divisor gives an infinity or not-a-number,
\* never an exception
Div(x, y) ==
    IF x.k = "nan" \/ y.k = "nan" THEN NaN
    ELSE IF x.k = "inf" /\ y.k = "inf" THEN NaN
    ELSE IF x.k = "inf" THEN Inf(IF y.n < 0 THEN -x.n ELSE x.n)
    ELSE IF y.k = "inf" THEN Int2Num(0)
    ELSE IF y.n = 0 THEN (IF x.n = 0 THEN NaN ELSE Inf(Sign(x.n)))
    ELSE IF x.k = "fin" /\ y.k = "fin" THEN Fin(x.n * y.d, x.d * y.n)
    ELSE Surd(Sign(x.n) * Sign(y.n),
              Fin(Square(x).n * Square(y).d, Square(x).d * Square(y).n))

\* numpy.sqrt
Sqrt(x) ==
    IF x.k = "nan" THEN NaN
    ELSE IF x.k = "inf" THEN (IF x.n > 0 THEN x ELSE NaN)
    ELSE IF x.n < 0 THEN NaN
    ELSE Surd(1, x)

\* x < y on doubles (false when either is not-a-number)
Less(x, y) ==
    IF x.k = "nan" \/ y.k = "nan" THEN FALSE
    ELSE IF x.k = "inf" THEN x.n < 0 /\ ~(y.k = "inf" /\ y.n < 0)
    ELSE IF y.k = "inf" THEN y.n > 0
    ELSE x.n * y.d < y.n * x.d

RECURSIVE SumSeq(_)
SumSeq(s) == IF s = <<>> THEN Int2Num(0) ELSE Add(Head(s), SumSeq(Tail(s)))

RECURSIVE SumInt(_)
SumInt(s) == IF s = <<>> THEN 0 ELSE Head(s) + SumInt(Tail(s))

(***************************************************************************)
(* Inputs of the optimizer: data frames.  A frame has column labels, an    *)
(* index of dates, a matrix of cell values (rows of the frame) and the set *)
(* of cells <<row, column>> that hold a missing value.                     *)
(***************************************************************************)
Tickers == <<"AAPL", "GOOG", "MSFT", "TSLA">>

Reverse(s) == [i \in 1..Len(s) |-> s[Len(s) + 1 - i]]

\* the dates a..a+n-1 of an index
DateRange(a, n) == [i \in 1..n |-> a + i - 1]

Frame(c, ix, v, na) ==
    [type |-> "DataFrame", columns |-> c, index |-> ix, values |-> v, na |-> na]

NotAFrame ==
    [type |-> "list", columns |-> <<>>, index |-> <<>>, values |-> <<>>, na |-> {}]

NRows(df) == Len(df.index)
NCols(df) == Len(df.columns)

\* DataFrame.empty: any axis of length 0
IsEmptyFrame(df) == NRows(df) = 0 \/ NCols(df) = 0

\* DataFrame.isnull().values.any()
HasNull(df) == df.na # {}

(***************************************************************************)
(* Results of a call: a Series, or the exception raised.                   *)
(***************************************************************************)
NoResult == [kind |-> "none", msg |-> "", index |-> <<>>, values |-> <<>>]

Raise(kind, msg) == [kind |-> kind, msg |-> msg, index |-> <<>>, values |-> <<>>]

Series(values, index) == [kind |-> "Series", msg |-> "", index |-> index, values |-> values]

(***************************************************************************)
(* DataFrame.cov(): the unbiased sample covariance of the columns.         *)
(* cov[i][j] = sum_t (x_ti - mean_i)(x_tj - mean_j) / (T - 1)              *)
(*           = (T * sum_t x_ti x_tj - sum_t x_ti * sum_t x_tj) / (T(T-1)). *)
(***************************************************************************)
cov(df) ==
    LET T == NRows(df)
        Column(j) == [t \in 1..T |-> df.values[t][j]]
        CrossSum(i, j) == SumInt([t \in 1..T |-> df.values[t][i] * df.values[t][j]])
    IN  [i \in 1..NCols(df) |-> [j \in 1..NCols(df) |->
            Fin(T * CrossSum(i, j) - SumInt(Column(i)) * SumInt(Column(j)),
                T * (T - 1))]]

(***************************************************************************)
(* numpy.linalg.inv: the inverse as adjugate / determinant; a singular     *)
(* matrix raises LinAlgError.                                              *)
(***************************************************************************)
Minor(m, i, j) ==
    LET n == Len(m)
        Skip(k, x) == IF x < k THEN x ELSE x + 1
    IN  [r \in 1..(n - 1) |-> [c \in 1..(n - 1) |-> m[Skip(i, r)][Skip(j, c)]]]

RECURSIVE Det(_)
Det(m) ==
    IF Len(m) = 0 THEN Int2Num(1)
    ELSE IF Len(m) = 1 THEN m[1][1]
    ELSE SumSeq([j \in 1..Len(m) |->
            Mul(Int2Num(IF j % 2 = 1 THEN 1 ELSE -1), Mul(m[1][j], Det(Minor(m, 1, j))))])

Cofactor(m, i, j) ==
    Mul(Int2Num(IF (i + j) % 2 = 0 THEN 1 ELSE -1), Det(Minor(m, i, j)))

IsSingular(m) == Det(m) = Int2Num(0)

inv(m) ==
    LET det == Det(m)
    IN  [i \in 1..Len(m) |-> [j \in 1..Len(m) |-> Div(Cofactor(m, j, i), det)]]

\* matrix @ vector
MatVec(m, v) == [i \in 1..Len(m) |-> SumSeq([j \in 1..Len(v) |-> Mul(m[i][j], v[j])])]

\* vector @ vector
Dot(u, v) == SumSeq([i \in 1..Len(u) |-> Mul(u[i], v[i])])

(***************************************************************************)
(* calculate_mvp_weights (minimum_variance_portfolio.py).                  *)
(***************************************************************************)
\* the messages of the ValueErrors raised on lines 36, 38, 40, 42 and 58
Msg ==
    [empty |-> "Input DataFrame cannot be empty.",
     nan |-> "Input DataFrame contains NaN values. Please handle missing data before proceeding.",
     assets |-> "At least two assets are required to compute the minimum variance portfolio.",
     obs |-> "Number of observations must exceed the number of assets to ensure covariance matrix invertibility.",
     singular |-> "Covariance matrix is singular and cannot be inverted. Try removing collinear or redundant assets."]

\* A plausible slip: the asset-count check placed before the missing-value check.
ValidateReturnsAssetsFirst(df) ==
    IF df.type # "DataFrame"
    THEN Raise("TypeError", "Input must be a pd.DataFrame object with stock returns.")
    ELSE IF IsEmptyFrame(df) THEN Raise("ValueError", Msg.empty)
    ELSE IF NCols(df) < 2 THEN Raise("ValueError", Msg.assets)
    ELSE IF HasNull(df) THEN Raise("ValueError", Msg.nan)
    ELSE IF NRows(df) <= NCols(df) THEN Raise("ValueError", Msg.obs)
    ELSE NoResult

\* A plausible slip: the row-count check off by one (< for <=).
ValidateReturnsOffByOne(df) ==
    IF df.type # "DataFrame"
    THEN Raise("TypeError", "Input must be a pd.DataFrame object with stock returns.")
    ELSE IF IsEmptyFrame(df) THEN Raise("ValueError", Msg.empty)
    ELSE IF HasNull(df) THEN Raise("ValueError", Msg.nan)
    ELSE IF NCols(df) < 2 THEN Raise("ValueError", Msg.assets)
    ELSE IF NRows(df) < NCols(df) THEN Raise("ValueError", Msg.obs)
    ELSE NoResult

\* The input validation: the exception raised, or NoResult when all checks pass.
ValidateReturns(df) ==
    IF df.type # "DataFrame"
    THEN Raise("TypeError", "Input must be a pd.DataFrame object with stock returns.")
    ELSE IF IsEmptyFrame(df) THEN Raise("ValueError", Msg.empty)
    ELSE IF HasNull(df) THEN Raise("ValueError", Msg.nan)
    ELSE IF NCols(df) < 2 THEN Raise("ValueError", Msg.assets)
    ELSE IF NRows(df) <= NCols(df) THEN Raise("ValueError", Msg.obs)
    ELSE NoResult

\* A plausible slip: a substitute matrix (here the zero matrix, the
\* pseudo-inverse of the zero matrix) instead of the error.
InvertCovFallback(m) ==
    IF IsSingular(m)
    THEN [raised |-> NoResult, value |-> [i \in 1..Len(m) |-> [j \in 1..Len(m) |-> Int2Num(0)]]]
    ELSE [raised |-> NoResult, value |-> inv(m)]

\* A plausible slip: the numerical error let through under its own kind.
InvertCovUncaught(m) ==
    IF IsSingular(m)
    THEN [raised |-> Raise("LinAlgError", "Singular matrix"), value |-> <<>>]
    ELSE [raised |-> NoResult, value |-> inv(m)]

\* try: inv_cov = np.linalg.inv(cov) / except LinAlgError: raise ValueError
InvertCov(m) ==
    IF IsSingular(m)
    THEN [raised |-> Raise("ValueError", Msg.singular), value |-> <<>>]
    ELSE [raised |-> NoResult, value |-> inv(m)]

\* A plausible slip: the normaliser computed without the inverse (1'1).
NormaliseByCount(inv_cov, ones) ==
    LET weights == MatVec(inv_cov, ones)
        total == Dot(ones, ones)
    IN  [i \in 1..Len(weights) |-> Div(weights[i], total)]

\* weights = inv_cov @ ones; weights /= ones.T @ inv_cov @ ones
NormaliseWeights(inv_cov, ones) ==
    LET weights == MatVec(inv_cov, ones)
        \* vector @ matrix
        VecMat(v, m) ==
            [j \in 1..Len(m) |-> SumSeq([i \in 1..Len(v) |-> Mul(v[i], m[i][j])])]
        total == Dot(VecMat(ones, inv_cov), ones)
    IN  [i \in 1..Len(weights) |-> Div(weights[i], total)]

\* A plausible slip: the weights labelled in a canonical ticker order.
WeightsSeriesCanonical(weights, df) == Series(weights, SubSeq(Tickers, 1, Len(weights)))

\* mvp_weights = pd.Series(weights, index=returns_df.columns)
WeightsSeries(weights, df) == Series(weights, df.columns)

calculate_mvp_weights(df) ==
    IF ValidateReturns(df).kind # "none" THEN ValidateReturns(df)
    ELSE LET cov_matrix == cov(df)
             ones == [i \in 1..Len(cov_matrix) |-> Int2Num(1)]
             inverted == InvertCov(cov_matrix)
         IN  IF inverted.raised.kind # "none" THEN inverted.raised
             ELSE WeightsSeries(NormaliseWeights(inverted.value, ones), df)

(***************************************************************************)
(* calculate_mvp_portfolio (minimum_variance_portfolio.py).                *)
(***************************************************************************)
Labels(s) == {s[i] : i \in 1..Len(s)}

\* the value of a Series at a label
Lookup(w, label) == w.values[CHOOSE i \in 1..Len(w.index) : w.index[i] = label]

\* A plausible slip: the product re-indexed in another date order.
FrameDotSeriesReindexed(df, w) ==
    IF Cardinality(Labels(df.columns) \cup Labels(w.index)) > Len(df.columns)
       \/ Cardinality(Labels(df.columns) \cup Labels(w.index)) > Len(w.index)
    THEN Raise("ValueError", "matrices are not aligned")
    ELSE Series([t \in 1..NRows(df) |->
                    SumSeq([j \in 1..NCols(df) |->
                        Mul(Int2Num(df.values[t][j]), Lookup(w, df.columns[j]))])],
                Reverse(df.index))

\* A plausible slip: the weights taken by position from the far end, so that
\* a column meets another asset's weight.
FrameDotSeriesMisaligned(df, w) ==
    Series([t \in 1..NRows(df) |->
               SumSeq([j \in 1..NCols(df) |->
                   Mul(Int2Num(df.values[t][j]), w.values[NCols(df) + 1 - j])])],
           df.index)

\* returns_df @ mvp_weights: DataFrame.dot(Series) aligns the frame's columns
\* with the Series' index by label and keeps the frame's index
FrameDotSeries(df, w) ==
    IF Cardinality(Labels(df.columns) \cup Labels(w.index)) > Len(df.columns)
       \/ Cardinality(Labels(df.columns) \cup Labels(w.index)) > Len(w.index)
    THEN Raise("ValueError", "matrices are not aligned")
    ELSE Series([t \in 1..NRows(df) |->
                    SumSeq([j \in 1..NCols(df) |->
                        Mul(Int2Num(df.values[t][j]), Lookup(w, df.columns[j]))])],
                df.index)

calculate_mvp_portfolio(df) ==
    IF df.type # "DataFrame"
    THEN Raise("TypeError", "Input must be a pandas DataFrame with asset returns.")
    ELSE IF IsEmptyFrame(df) THEN Raise("ValueError", Msg.empty)
    ELSE IF HasNull(df)
    THEN Raise("ValueError", "Input DataFrame contains NaN values. Please handle missing data first.")
    ELSE LET mvp_weights == calculate_mvp_weights(df)
         IN  IF mvp_weights.kind # "Series" THEN mvp_weights
             ELSE LET product == FrameDotSeries(df, mvp_weights)
                  IN  IF product.kind # "Series" THEN product
                      ELSE IF df.index # product.index
                      THEN Raise("ValueError",
                                 "Mismatch in index between input data and calculated portfolio returns.")
                      ELSE product

(***************************************************************************)
(* The optimizer as a state machine: a frame is drawn, then one of the two *)
(* public functions is called on it.                                       *)
(***************************************************************************)
NoSeries == [type |-> "none", index |-> <<>>, values |-> <<>>]

NoInterval == [type |-> "none", value |-> ""]

NoFiles == [state |-> "none", index |-> <<>>, values |-> <<>>]

NoValue == [type |-> "none", v |-> [k |-> "nan", n |-> 0, d |-> 1]]

NoText == [type |-> "none", text |-> <<>>]

\* nothing called yet on the side of the command line
CliIdle ==
    /\ in_end = NoText
    /\ in_period = NoText
    /\ tickers = [type |-> "none", items |-> <<>>]
    /\ api = <<>>
    /\ betas = NoSeries
    /\ width = [type |-> "none", v |-> 0]
    /\ scale = [type |-> "none", v |-> 0]
    /\ stdout = <<>>
    /\ user_input = NoText
    /\ mkt_benchmark_ticker = ""

\* nothing called yet on the analyzer side
AnalyzerIdle ==
    /\ mkt_returns = NoSeries
    /\ factor_files = NoFiles
    /\ log = FALSE
    /\ events = <<>>
    /\ previous = NoResult
    /\ val = NoValue

\* the argument is drawn: not a frame, or a frame of nr rows and nc columns
\* with its column labels, its dates and the cells that hold a missing value
InitMVP ==
    /\ AnalyzerIdle
    /\ pc = "call"
    /\ CliIdle
    /\ \/ returns_df = NotAFrame
       \/ \E nr \in 0..MaxRows, nc \in 0..MaxCols :
            LET labels == SubSeq(Tickers, 1, nc)
                dates == DateRange(1, nr)
                Labellings ==
                    {[columns |-> labels, index |-> dates, na |-> {}],
                     [columns |-> Reverse(labels), index |-> Reverse(dates), na |-> {}]}
                    \cup (IF nr = 0 \/ nc = 0 THEN {}
                          ELSE {[columns |-> labels, index |-> dates, na |-> {<<1, 1>>}],
                                [columns |-> Reverse(labels), index |-> dates,
                                 na |-> {<<nr, nc>>}]})
            IN  \E l \in Labellings, v \in [1..nr -> [1..nc -> {-1, 1}]] :
                    returns_df = Frame(l.columns, l.index, v, l.na)
    /\ portfolio_returns = NoSeries
    /\ interval = NoInterval
    /\ result = NoResult

MvpWeights ==
    /\ pc = "call"
    /\ pc' = "mvp_weights"
    /\ result' = calculate_mvp_weights(returns_df)
    /\ UNCHANGED <<returns_df, portfolio_returns, interval>>
    /\ UNCHANGED analyzerVars
    /\ UNCHANGED cliVars

MvpPortfolio ==
    /\ pc = "call"
    /\ pc' = "mvp_portfolio"
    /\ result' = calculate_mvp_portfolio(returns_df)
    /\ UNCHANGED <<returns_df, portfolio_returns, interval>>
    /\ UNCHANGED analyzerVars
    /\ UNCHANGED cliVars

NextMVP == MvpWeights \/ MvpPortfolio

SpecMVP == InitMVP /\ [][NextMVP]_vars

(***************************************************************************)
(* Inputs of the statistics engine: a return series and an interval.       *)
(***************************************************************************)
NotASeries == [type |-> "list", index |-> <<>>, values |-> <<>>]

IntervalInputs ==
    {[type |-> "str", value |-> v] :
        v \in {"daily", "monthly", "yearly", "Monthly", "DAILY", "weekly"}}
        \cup {[type |-> "int", value |-> "12"]}

\* A plausible slip: the tag compared as it was spelled.
LowerIdentity(str) == str

\* str.lower
Lower(str) ==
    CASE str = "Monthly" -> "monthly"
      [] str = "DAILY" -> "daily"
      [] OTHER -> str

valid_interval_factors == [daily |-> 252, monthly |-> 12, yearly |-> 1]

(***************************************************************************)
(* calculate_portfolio_statistics (portfolio_statistics.py).               *)
(***************************************************************************)
\* Series.mean()
Mean(xs) == Div(SumSeq(xs), Int2Num(Len(xs)))

\* Series.std(): the sample standard deviation (ddof = 1); not-a-number for a
\* single observation
Std(xs) ==
    LET m == Mean(xs)
        sq == [i \in 1..Len(xs) |-> Mul(Sub(xs[i], m), Sub(xs[i], m))]
    IN  Sqrt(Div(SumSeq(sq), Int2Num(Len(xs) - 1)))

\* (1 + Series).cumprod()
CumProd(xs) ==
    LET RECURSIVE prod(_)
        prod(i) == IF i = 0 THEN Int2Num(1) ELSE Mul(prod(i - 1), Add(Int2Num(1), xs[i]))
    IN  [i \in 1..Len(xs) |-> prod(i)]

\* max of two doubles as cummax takes it (a not-a-number is skipped)
Max2(a, b) == IF a.k = "nan" THEN b ELSE IF b.k = "nan" THEN a ELSE IF Less(a, b) THEN b ELSE a

\* A plausible slip: the running maximum started at the initial wealth of 1
\* instead of at the first cumulative value.
CumMaxFromOne(xs) ==
    LET RECURSIVE best(_)
        best(i) == IF i = 0 THEN Int2Num(1) ELSE Max2(best(i - 1), xs[i])
    IN  [i \in 1..Len(xs) |-> best(i)]

\* Series.cummax()
CumMax(xs) ==
    LET RECURSIVE best(_)
        best(i) == IF i = 1 THEN xs[1] ELSE Max2(best(i - 1), xs[i])
    IN  [i \in 1..Len(xs) |-> best(i)]

\* Series.min(): the least value, missing values skipped; not-a-number when
\* every value is missing
SeriesMin(xs) ==
    LET Min2(a, b) ==
            IF a.k = "nan" THEN b ELSE IF b.k = "nan" THEN a ELSE IF Less(b, a) THEN b ELSE a
        RECURSIVE least(_)
        least(i) == IF i = 1 THEN xs[1] ELSE Min2(least(i - 1), xs[i])
    IN  least(Len(xs))

\* A plausible slip: the division without the zero guard.
SharpeUnguarded(annualized_return, annualized_volatility) ==
    Div(annualized_return, annualized_volatility)

\* if annualized_volatility == 0: sharpe_ratio = np.nan / else: the quotient
SharpeRatio(annualized_return, annualized_volatility) ==
    IF annualized_volatility = Int2Num(0) THEN NaN
    ELSE Div(annualized_return, annualized_volatility)

StatKeys ==
    <<"mean_return", "annualized_return", "std_dev", "annualized_volatility",
      "sharpe_ratio", "cumulative_return", "max_drawdown">>

calculate_portfolio_statistics(returns, intv) ==
    IF intv.type # "str" THEN Raise("TypeError", "Interval must be a string.")
    ELSE IF returns.type # "Series"
    THEN Raise("TypeError", "Portfolio returns must be a pandas Series.")
    ELSE IF Len(returns.values) = 0
    THEN Raise("ValueError", "Portfolio return series cannot be empty.")
    ELSE IF \E i \in 1..Len(returns.values) : returns.values[i].k # "fin"
    THEN Raise("ValueError", "Portfolio return series contains NaN or infinite values.")
    ELSE IF Lower(intv.value) \notin DOMAIN valid_interval_factors
    THEN Raise("ValueError", "Invalid interval factor. Must be one of: daily, monthly, yearly.")
    ELSE LET interval_factor == valid_interval_factors[Lower(intv.value)]
             mean_return == Mean(returns.values)
             annualized_return == Mul(mean_return, Int2Num(interval_factor))
             std_dev == Std(returns.values)
             annualized_volatility == Mul(std_dev, Sqrt(Int2Num(interval_factor)))
             sharpe_ratio == SharpeRatio(annualized_return, annualized_volatility)
             cumulative_return == CumProd(returns.values)
             cum_return == Sub(cumulative_return[Len(cumulative_return)], Int2Num(1))
             rolling_max == CumMax(cumulative_return)
             drawdown == [i \in 1..Len(cumulative_return) |->
                            Sub(Div(cumulative_return[i], rolling_max[i]), Int2Num(1))]
             max_drawdown == SeriesMin(drawdown)
         IN  [kind |-> "dict", msg |-> "", index |-> StatKeys,
              values |-> <<mean_return, annualized_return, std_dev, annualized_volatility,
                           sharpe_ratio, cum_return, max_drawdown>>]

(***************************************************************************)
(* The statistics engine as a state machine: a series and an interval are  *)
(* drawn, then calculate_portfolio_statistics is called on them.           *)
(***************************************************************************)
InitStats ==
    /\ AnalyzerIdle
    /\ pc = "call"
    /\ CliIdle
    /\ returns_df = NotAFrame
    /\ \/ portfolio_returns = NotASeries
       \/ \E n \in 0..MaxLen :
            \E v \in [1..n -> {Fin(-2, 1), Fin(-1, 1), Fin(-1, 2), Int2Num(0),
                                Fin(1, 2), Int2Num(1), NaN, Inf(1)}] :
            portfolio_returns = [type |-> "Series", index |-> DateRange(1, n), values |-> v]
    /\ interval \in IntervalInputs
    /\ result = NoResult

PortfolioStatistics ==
    /\ pc = "call"
    /\ pc' = "stats"
    /\ result' = calculate_portfolio_statistics(portfolio_returns, interval)
    /\ UNCHANGED <<returns_df, portfolio_returns, interval>>
    /\ UNCHANGED analyzerVars
    /\ UNCHANGED cliVars

SpecStats == InitStats /\ [][PortfolioStatistics]_vars

(***************************************************************************)
(* compare_portfolio_with_market_benchmark (portfolio_statistics.py).      *)
(* Both series carry an index of dates (day numbers); every call made and  *)
(* every block printed is appended to events in the order it happens.      *)
(***************************************************************************)
\* pd.Series with an index; dtype is index.dtype
DatedSeries(index, values, dtype) ==
    [type |-> "Series", index |-> index, values |-> values, dtype |-> dtype]

\* Index.intersection
Intersection(ix, iy) == Labels(ix) \cap Labels(iy)

\* np.isfinite(series).all()
AllFinite(values) == \A i \in 1..Len(values) : IsFinite(values[i])

\* a function that returns None
None == [kind |-> "None", msg |-> "", index |-> <<>>, values |-> <<>>]

Event(call, name) == [call |-> call, name |-> name]

\* A plausible slip: the benchmark's values left to be checked by the
\* statistics call.
CompareValidationPortfolioOnly(p, m, intv) ==
    IF intv.type # "str" THEN Raise("TypeError", "Interval must be a string.")
    ELSE IF p.type # "Series"
    THEN Raise("TypeError", "Portfolio returns must be a pandas Series.")
    ELSE IF m.type # "Series"
    THEN Raise("TypeError", "Market returns must be a pandas Series.")
    ELSE IF Len(p.values) = 0 \/ Len(m.values) = 0
    THEN Raise("ValueError", "Return series cannot be empty.")
    ELSE IF ~AllFinite(p.values)
    THEN Raise("ValueError", "Portfolio return series contains NaN or infinite values.")
    ELSE IF Intersection(p.index, m.index) = {}
    THEN Raise("ValueError",
               "Portfolio and market return series must share overlapping dates.")
    ELSE IF Lower(intv.value) \notin DOMAIN valid_interval_factors
    THEN Raise("ValueError", "Invalid interval. Must be 'daily', 'monthly', or 'yearly'.")
    ELSE NoResult

\* lines 41-62: the type checks and the value checks, in the code's order
CompareValidation(p, m, intv) ==
    IF intv.type # "str" THEN Raise("TypeError", "Interval must be a string.")
    ELSE IF p.type # "Series"
    THEN Raise("TypeError", "Portfolio returns must be a pandas Series.")
    ELSE IF m.type # "Series"
    THEN Raise("TypeError", "Market returns must be a pandas Series.")
    ELSE IF Len(p.values) = 0 \/ Len(m.values) = 0
    THEN Raise("ValueError", "Return series cannot be empty.")
    ELSE IF ~AllFinite(p.values)
    THEN Raise("ValueError", "Portfolio return series contains NaN or infinite values.")
    ELSE IF ~AllFinite(m.values)
    THEN Raise("ValueError", "Market return series contains NaN or infinite values.")
    ELSE IF Intersection(p.index, m.index) = {}
    THEN Raise("ValueError",
               "Portfolio and market return series must share overlapping dates.")
    ELSE IF Lower(intv.value) \notin DOMAIN valid_interval_factors
    THEN Raise("ValueError", "Invalid interval. Must be 'daily', 'monthly', or 'yearly'.")
    ELSE NoResult

\* print_portfolio_statistics: the checks of its arguments; the values of a
\* statistics record are floats, so the numeric check passes
print_portfolio_statistics(portfolio_stats, portfolio_name) ==
    IF portfolio_stats.kind # "dict"
    THEN Raise("TypeError", "Portfolio statistics must be provided as a dictionary.")
    ELSE IF Len(portfolio_stats.values) = 0
    THEN Raise("ValueError", "Portfolio statistics dictionary cannot be empty.")
    ELSE IF ~(Labels(StatKeys) \subseteq Labels(portfolio_stats.index))
    THEN Raise("KeyError", "Missing key(s) in portfolio statistics dictionary")
    ELSE None

\* the outcome of the call and the calls and prints it made, in order: the
\* checks, the statistics of the portfolio, those of the benchmark, the block
\* printed for the portfolio and the block printed for the benchmark
compare_portfolio_with_market_benchmark(p, m, intv) ==
    IF CompareValidation(p, m, intv).kind # "none"
    THEN [result |-> CompareValidation(p, m, intv), events |-> <<>>]
    ELSE
    LET lowered == [type |-> "str", value |-> Lower(intv.value)]
        e1 == <<Event("calculate_portfolio_statistics", "portfolio_returns")>>
        e2 == Append(e1, Event("calculate_portfolio_statistics", "mkt_returns"))
        e3 == Append(e2, Event("print_portfolio_statistics", "Minimum Variance Portfolio"))
        e4 == Append(e3, Event("print_portfolio_statistics", "Market Benchmark"))
    IN  IF calculate_portfolio_statistics(p, lowered).kind # "dict"
        THEN [result |-> calculate_portfolio_statistics(p, lowered), events |-> e1]
        ELSE IF calculate_portfolio_statistics(m, lowered).kind # "dict"
        THEN [result |-> calculate_portfolio_statistics(m, lowered), events |-> e2]
        ELSE IF print_portfolio_statistics(calculate_portfolio_statistics(p, lowered),
                                           "Minimum Variance Portfolio").kind # "None"
        THEN [result |-> print_portfolio_statistics(
                             calculate_portfolio_statistics(p, lowered),
                             "Minimum Variance Portfolio"),
              events |-> e2]
        ELSE IF print_portfolio_statistics(calculate_portfolio_statistics(m, lowered),
                                           "Market Benchmark").kind # "None"
        THEN [result |-> print_portfolio_statistics(
                             calculate_portfolio_statistics(m, lowered),
                             "Market Benchmark"),
              events |-> e3]
        ELSE [result |-> None, events |-> e4]

\* first dates of the series compared
StartDates == {1, 2}

InitCompare ==
    /\ pc = "call"
    /\ CliIdle
    /\ returns_df = NotAFrame
    /\ \/ portfolio_returns = NotASeries
       \/ \E n \in 0..(MaxLen - 1), a \in StartDates : \E v \in [1..n -> {Fin(1, 2), NaN, Inf(1)}] :
            portfolio_returns = DatedSeries(DateRange(a, n), v, "datetime64[ns]")
    /\ \/ mkt_returns = NotASeries
       \/ \E n \in 0..(MaxLen - 1), a \in StartDates : \E v \in [1..n -> {Fin(1, 2), NaN, Inf(1)}] :
            mkt_returns = DatedSeries(DateRange(a, n), v, "datetime64[ns]")
    /\ interval \in IntervalInputs
    /\ result = NoResult
    /\ factor_files = NoFiles
    /\ log = FALSE
    /\ events = <<>>
    /\ previous = NoResult
    /\ val = NoValue

Compare ==
    /\ pc = "call"
    /\ pc' = "compare"
    /\ LET out == compare_portfolio_with_market_benchmark(
                      portfolio_returns, mkt_returns, interval)
       IN  /\ result' = out.result
           /\ events' = out.events
    /\ UNCHANGED <<returns_df, portfolio_returns, interval>>
    /\ UNCHANGED <<mkt_returns, factor_files, log, previous, val>>
    /\ UNCHANGED cliVars

SpecCompare == InitCompare /\ [][Compare]_vars

(***************************************************************************)
(* factor_analysis_regression (portfolio_analyzer.py).  The two factor     *)
(* files on disk are the state factor_files: whether each file exists, and *)
(* the rows of the dates the two files share (the inner join of line 132). *)
(***************************************************************************)
MaxDates == 6

FactorFiles(state, index, values) == [state |-> state, index |-> index, values |-> values]

\* the factor returns of day d; the pattern names what is special in the file
FactorRow(d, pattern) ==
    [Mom |-> Int2Num(((d * d) % 5) - 2),
     Mkt_rf |-> Int2Num(d),
     SMB |-> Int2Num(d * d),
     HML |-> IF pattern = "constant HML" THEN Int2Num(2) ELSE Int2Num(d * d * d),
     Rf |-> IF pattern = "missing Rf" /\ d = 1 THEN NaN ELSE Fin(1, 10)]

DataFrame(index, values) ==
    [kind |-> "DataFrame", msg |-> "", index |-> index, values |-> values]

\* create_factor_dataset(): the table read from the two files, or the error
create_factor_dataset(files) ==
    IF files.state = "momentum missing"
    THEN Raise("FileNotFoundError", "Missing file: input/momentum_factor.csv")
    ELSE IF files.state = "research missing"
    THEN Raise("FileNotFoundError", "Missing file: input/research_factors.csv")
    ELSE IF \E i \in 1..Len(files.values), c \in {"Mom", "Mkt_rf", "SMB", "HML", "Rf"} :
                IsNaN(files.values[i][c])
    THEN Raise("ValueError", "Combined factor dataset contains missing values after join.")
    ELSE DataFrame(files.index, files.values)

\* the labels of a set in ascending order
SortedLabels(S) ==
    LET RECURSIVE sorted(_)
        sorted(T) ==
            IF T = {} THEN <<>>
            ELSE LET least == CHOOSE x \in T : \A y \in T : x <= y
                 IN  <<least>> \o sorted(T \ {least})
    IN  sorted(S)

\* pd.concat([portfolio_returns, mkt_returns], axis=1) with the columns
\* renamed: one row for every date of either series (the union of the two
\* indices), a cell missing where a series has no value at the date
ConcatColumns(p, m) ==
    LET index == SortedLabels(Labels(p.index) \cup Labels(m.index))
        ValueAt(s, date) == IF date \in Labels(s.index) THEN Lookup(s, date) ELSE NaN
    IN  DataFrame(index, [i \in 1..Len(index) |->
                            [Portfolio |-> ValueAt(p, index[i]),
                             MKT |-> ValueAt(m, index[i])]])

\* A plausible slip: the caller's series scaled where they stand, so that a
\* later call on the same series scales them once more.
ScaledInPlace(df) ==
    LET factor == IF pc = "call" THEN Int2Num(100) ELSE Int2Num(10000)
    IN  DataFrame(df.index, [i \in 1..Len(df.index) |->
                               [Portfolio |-> Mul(df.values[i].Portfolio, factor),
                                MKT |-> Mul(df.values[i].MKT, factor)]])

\* joined_returns *= 100
Scaled(df) ==
    DataFrame(df.index, [i \in 1..Len(df.index) |->
                           [Portfolio |-> Mul(df.values[i].Portfolio, Int2Num(100)),
                            MKT |-> Mul(df.values[i].MKT, Int2Num(100))]])

\* the positions of an index whose label is in keep, in order
Positions(index, keep) ==
    LET RECURSIVE from(_)
        from(i) ==
            IF i > Len(index) THEN <<>>
            ELSE IF index[i] \in keep THEN <<i>> \o from(i + 1)
            ELSE from(i + 1)
    IN  from(1)

\* A plausible slip: the excess return taken over the market column instead
\* of the risk-free rate, so that the benchmark enters the regression.
JoinFactorsOverMarket(joined, factors) ==
    LET rows == Positions(joined.index, Labels(factors.index))
        factorRow(date) ==
            factors.values[CHOOSE j \in 1..Len(factors.index) : factors.index[j] = date]
    IN  DataFrame([k \in 1..Len(rows) |-> joined.index[rows[k]]],
                  [k \in 1..Len(rows) |->
                     LET r == joined.values[rows[k]]
                         f == factorRow(joined.index[rows[k]])
                     IN  [Portfolio |-> r.Portfolio, MKT |-> r.MKT,
                          Mom |-> f.Mom, Mkt_rf |-> f.Mkt_rf, SMB |-> f.SMB,
                          HML |-> f.HML, Rf |-> f.Rf,
                          Portfolio_excess |-> Sub(r.Portfolio, r.MKT)]])

\* joined_returns.join(combined_factors_df, how="inner"), and the column
\* Portfolio_excess = Portfolio - Rf of line 211
JoinFactors(joined, factors) ==
    LET rows == Positions(joined.index, Labels(factors.index))
        factorRow(date) ==
            factors.values[CHOOSE j \in 1..Len(factors.index) : factors.index[j] = date]
    IN  DataFrame([k \in 1..Len(rows) |-> joined.index[rows[k]]],
                  [k \in 1..Len(rows) |->
                     LET r == joined.values[rows[k]]
                         f == factorRow(joined.index[rows[k]])
                     IN  [Portfolio |-> r.Portfolio, MKT |-> r.MKT,
                          Mom |-> f.Mom, Mkt_rf |-> f.Mkt_rf, SMB |-> f.SMB,
                          HML |-> f.HML, Rf |-> f.Rf,
                          Portfolio_excess |-> Sub(r.Portfolio, f.Rf)]])

Regressors == <<"Mkt_rf", "SMB", "HML", "Mom">>

\* sm.add_constant (has_constant='skip'): a column of ones named const is put
\* first, unless a regressor is already a non-zero constant over the sample
add_constant(final_df) ==
    IF \E c \in Labels(Regressors) :
          /\ \A i \in 1..Len(final_df.values) :
                 final_df.values[i][c] = final_df.values[1][c]
          /\ final_df.values[1][c] # Int2Num(0)
    THEN Regressors
    ELSE <<"const">> \o Regressors

\* sm.OLS(y, X).fit().params: one coefficient for every column of X.  The
\* least-squares solution is a function of the sample (y, X) alone; a
\* coefficient is the term naming its column and the sample.  A sample with
\* a non-finite value makes statsmodels raise.
OLSFit(y, columns, rows) ==
    IF (\E i \in 1..Len(y) : ~IsFinite(y[i]))
         \/ (\E i \in 1..Len(rows) : \E j \in 1..Len(columns) : ~IsFinite(rows[i][j]))
    THEN Raise("MissingDataError", "exog contains inf or nans")
    ELSE Series([j \in 1..Len(columns) |->
                    [k |-> "coef", of |-> columns[j], y |-> y, X |-> rows]],
                columns)

\* A plausible slip: every coefficient of the fit returned.
KeepAll(params, label) == params

\* Series.drop(label, errors="ignore")
Drop(params, label) ==
    LET kept == Positions(params.index, Labels(params.index) \ {label})
    IN  Series([i \in 1..Len(kept) |-> params.values[kept[i]]],
               [i \in 1..Len(kept) |-> params.index[kept[i]]])

\* A plausible slip: the index type looked at before the lengths.
RegressionValidationDatesFirst(p, m) ==
    IF p.type # "Series"
    THEN Raise("TypeError", "Portfolio returns must be provided as pandas Series.")
    ELSE IF m.type # "Series"
    THEN Raise("TypeError", "Market returns must be provided as pandas Series.")
    ELSE IF p.dtype # "datetime64[ns]" \/ m.dtype # "datetime64[ns]"
    THEN Raise("TypeError", "Both series must have a datetime index.")
    ELSE IF Len(p.values) = 0 \/ Len(m.values) = 0
    THEN Raise("ValueError", "Both input series must be non-empty.")
    ELSE IF Intersection(p.index, m.index) = {}
    THEN Raise("ValueError", "The input series must have overlapping dates.")
    ELSE NoResult

\* lines 178-191: the checks made on the two series as they were passed
RegressionValidation(p, m) ==
    IF p.type # "Series"
    THEN Raise("TypeError", "Portfolio returns must be provided as pandas Series.")
    ELSE IF m.type # "Series"
    THEN Raise("TypeError", "Market returns must be provided as pandas Series.")
    ELSE IF Len(p.values) = 0 \/ Len(m.values) = 0
    THEN Raise("ValueError", "Both input series must be non-empty.")
    ELSE IF p.dtype # "datetime64[ns]" \/ m.dtype # "datetime64[ns]"
    THEN Raise("TypeError", "Both series must have a datetime index.")
    ELSE IF Intersection(p.index, m.index) = {}
    THEN Raise("ValueError", "The input series must have overlapping dates.")
    ELSE NoResult

\* A plausible slip: the missing values left for the fit to find.
MissingValuesUnchecked(joined_returns) == FALSE

\* line 197: joined_returns.isnull().values.any()
MissingValues(joined_returns) ==
    \E i \in 1..Len(joined_returns.values) :
        \/ IsNaN(joined_returns.values[i].Portfolio)
        \/ IsNaN(joined_returns.values[i].MKT)

MinRegressionRows == 5

\* A plausible slip: the boundary row count rejected as well.
TooFewRowsInclusive(final_df) == Len(final_df.index) <= MinRegressionRows

\* final_df.shape[0] < 5
TooFewRows(final_df) == Len(final_df.index) < MinRegressionRows

\* lines 213-231: the fit, the logging of its summary, and the betas
FitAndReport(final_df, lg, before) ==
    LET columns == add_constant(final_df)
        rows == [i \in 1..Len(final_df.values) |->
                    [j \in 1..Len(columns) |->
                        IF columns[j] = "const" THEN Int2Num(1)
                        ELSE final_df.values[i][columns[j]]]]
        y == [i \in 1..Len(final_df.values) |-> final_df.values[i].Portfolio_excess]
        model == OLSFit(y, columns, rows)
        fitted == Append(before, Event("OLS.fit", "Portfolio_excess"))
        logged == IF lg THEN Append(fitted, Event("logging.info", "factor_analysis.log"))
                  ELSE fitted
    IN  IF model.kind # "Series"
        THEN [result |-> Raise("RuntimeError", "Failed to fit OLS regression model"),
              events |-> fitted]
        ELSE [result |-> Drop(model, "const"), events |-> logged]

\* the outcome of the call and the calls it made, in order: the checks of
\* the two arguments (lines 178-191), the two series side by side, the
\* missing-value check and the scaling (193-201), the factor data, the join
\* and the row count (203-208), and the fit (213-231)
factor_analysis_regression(p, m, lg, files) ==
    LET checked == RegressionValidation(p, m)
        joined_returns == ConcatColumns(p, m)
        combined_factors_df == create_factor_dataset(files)
        loaded == <<Event("create_factor_dataset", "input")>>
        final_df == JoinFactors(Scaled(joined_returns), combined_factors_df)
    IN  IF checked.kind # "none" THEN [result |-> checked, events |-> <<>>]
        ELSE IF MissingValues(joined_returns)
        THEN [result |-> Raise("ValueError",
                  "Input return series contain missing values. Please clean the data first."),
              events |-> <<>>]
        ELSE IF combined_factors_df.kind # "DataFrame"
        THEN [result |-> combined_factors_df, events |-> loaded]
        ELSE IF TooFewRows(final_df)
        THEN [result |-> Raise("ValueError",
                  "Not enough overlapping data points to run regression."),
              events |-> loaded]
        ELSE FitAndReport(final_df, lg, loaded)

\* A plausible slip: the two series joined without a copy, so that the
\* scaling of line 201 reaches the values of the series passed in.
ScaledArgument(s) ==
    [s EXCEPT !.values = [i \in 1..Len(s.values) |-> Mul(s.values[i], Int2Num(100))]]

\* line 194: pd.concat builds a new frame that holds copies of the two
\* series, and line 201 multiplies that frame; a series passed in keeps its
\* values
CopiedArgument(s) == s

\* a series passed to the call, as the caller finds it afterwards: the
\* scaling of line 201 is reached once the checks of lines 179-198 pass
AfterCall(s, p, m) ==
    IF RegressionValidation(p, m).kind = "none" /\ ~MissingValues(ConcatColumns(p, m))
    THEN CopiedArgument(s)
    ELSE s

(***************************************************************************)
(* The regression as a state machine: two series, the log flag and the     *)
(* factor files are drawn; factor_analysis_regression is called; the files *)
(* on disk may then be replaced; and the call is made again on the same    *)
(* arguments.  previous keeps the first call's outcome and the files it    *)
(* read.                                                                   *)
(***************************************************************************)
\* a series on the days a..a+n-1 whose value on day d is d/100, but for the
\* last value where the pattern says so
ReturnsOn(a, n, pattern, dtype) ==
    DatedSeries(DateRange(a, n),
                [i \in 1..n |->
                    IF i = n /\ pattern = "missing last" THEN NaN
                    ELSE IF i = n /\ pattern = "infinite last" THEN Inf(1)
                    ELSE Fin(a + i - 1, 100)],
                dtype)

\* the files under input/: files holding the days 1..n, or a file missing
FactorEnvironments ==
    LET FactorTable(n, pattern) ==
            FactorFiles("present", DateRange(1, n),
                        [d \in 1..n |-> FactorRow(d, pattern)])
    IN
    {FactorTable(MaxDates, "varying"),
     FactorTable(MaxDates, "constant HML"),
     FactorTable(MaxDates - 2, "varying"),
     FactorTable(MaxDates, "missing Rf"),
     FactorFiles("momentum missing", <<>>, <<>>),
     FactorFiles("research missing", <<>>, <<>>)}

\* the series on the days a..a+n-1 that a call may be given
SeriesOn(a, n) ==
    {ReturnsOn(a, n, "finite", "datetime64[ns]"),
     ReturnsOn(a, n, "missing last", "datetime64[ns]"),
     ReturnsOn(a, n, "infinite last", "datetime64[ns]"),
     ReturnsOn(a, n, "finite", "int64")}

InitRegression ==
    /\ pc = "call"
    /\ CliIdle
    /\ returns_df = NotAFrame
    /\ \/ portfolio_returns = NotASeries
       \/ \E n \in 0..MaxDates, a \in StartDates :
            portfolio_returns \in SeriesOn(a, n)
    /\ \/ mkt_returns = NotASeries
       \/ \E n \in 0..MaxDates, a \in StartDates :
            mkt_returns \in SeriesOn(a, n)
    /\ interval = NoInterval
    /\ result = NoResult
    /\ factor_files \in FactorEnvironments
    /\ log \in BOOLEAN
    /\ events = <<>>
    /\ previous = NoResult
    /\ val = NoValue

Regression ==
    /\ pc = "call"
    /\ pc' = "regression"
    /\ LET out == factor_analysis_regression(portfolio_returns, mkt_returns, log,
                                             factor_files)
       IN  /\ result' = out.result
           /\ events' = out.events
           /\ previous' = [result |-> out.result, files |-> factor_files]
    /\ portfolio_returns' = AfterCall(portfolio_returns, portfolio_returns, mkt_returns)
    /\ mkt_returns' = AfterCall(mkt_returns, portfolio_returns, mkt_returns)
    /\ UNCHANGED <<returns_df, interval, factor_files, log, val>>
    /\ UNCHANGED cliVars

\* between two calls the files under input/ are replaced
FilesChange ==
    /\ pc = "regression"
    /\ pc' = "files changed"
    /\ factor_files' \in FactorEnvironments \ {factor_files}
    /\ UNCHANGED <<returns_df, portfolio_returns, interval, result>>
    /\ UNCHANGED <<mkt_returns, log, events, previous, val>>
    /\ UNCHANGED cliVars

RegressionAgain ==
    /\ pc \in {"regression", "files changed"}
    /\ pc' = "regression again"
    /\ LET out == factor_analysis_regression(portfolio_returns, mkt_returns, log,
                                             factor_files)
       IN  /\ result' = out.result
           /\ events' = out.events
    /\ portfolio_returns' = AfterCall(portfolio_returns, portfolio_returns, mkt_returns)
    /\ mkt_returns' = AfterCall(mkt_returns, portfolio_returns, mkt_returns)
    /\ UNCHANGED <<returns_df, interval, factor_files, log, previous, val>>
    /\ UNCHANGED cliVars

NextRegression == Regression \/ FilesChange \/ RegressionAgain

SpecRegression == InitRegression /\ [][NextRegression]_vars

(***************************************************************************)
(* interpret_exposure (portfolio_analyzer.py).  The argument val is a      *)
(* Python value: its type and, for a number, its value.  The arrows that   *)
(* end the labels are spelled (up) and (down).                             *)
(***************************************************************************)
MaxHundredths == 80

Value(type, v) == [type |-> type, v |-> v]

Str(text) == [kind |-> "str", msg |-> text, index |-> <<>>, values |-> <<>>]

\* A plausible slip: any number accepted.
IsNumber(x) == x.type \in {"float", "int"}

\* isinstance(val, float)
IsFloat(x) == x.type = "float"

\* A plausible slip: the first threshold taken inclusively.
interpret_exposure_inclusive(x) ==
    IF ~IsFloat(x) THEN Raise("TypeError", "Input value must be floating point number.")
    ELSE IF ~Less(x.v, Fin(6, 10)) /\ ~IsNaN(x.v) THEN Str("Strong exposure (up)")
    ELSE IF Less(Fin(3, 10), x.v) THEN Str("Mild exposure (up)")
    ELSE IF Less(Fin(1, 10), x.v) THEN Str("Slight exposure (up)")
    ELSE IF Less(x.v, Fin(-6, 10)) THEN Str("Strong exposure (down)")
    ELSE IF Less(x.v, Fin(-3, 10)) THEN Str("Mild exposure (down)")
    ELSE IF Less(x.v, Fin(-1, 10)) THEN Str("Slight exposure (down)")
    ELSE Str("Neutral exposure")

interpret_exposure(x) ==
    IF ~IsFloat(x) THEN Raise("TypeError", "Input value must be floating point number.")
    ELSE IF Less(Fin(6, 10), x.v) THEN Str("Strong exposure (up)")
    ELSE IF Less(Fin(3, 10), x.v) THEN Str("Mild exposure (up)")
    ELSE IF Less(Fin(1, 10), x.v) THEN Str("Slight exposure (up)")
    ELSE IF Less(x.v, Fin(-6, 10)) THEN Str("Strong exposure (down)")
    ELSE IF Less(x.v, Fin(-3, 10)) THEN Str("Mild exposure (down)")
    ELSE IF Less(x.v, Fin(-1, 10)) THEN Str("Slight exposure (down)")
    ELSE Str("Neutral exposure")

InitInterpret ==
    /\ pc = "call"
    /\ CliIdle
    /\ returns_df = NotAFrame
    /\ portfolio_returns = NoSeries
    /\ interval = NoInterval
    /\ result = NoResult
    /\ mkt_returns = NoSeries
    /\ factor_files = NoFiles
    /\ log = FALSE
    /\ events = <<>>
    /\ previous = NoResult
    /\ \/ \E h \in -MaxHundredths..MaxHundredths : val = Value("float", Fin(h, 100))
       \/ \E x \in {NaN, Inf(1), Inf(-1)} : val = Value("float", x)
       \/ \E i \in {-1, 0, 1} : val = Value("int", Int2Num(i))
       \/ val = Value("str", NaN)

InterpretExposure ==
    /\ pc = "call"
    /\ pc' = "interpret"
    /\ result' = interpret_exposure(val)
    /\ UNCHANGED <<returns_df, portfolio_returns, interval>>
    /\ UNCHANGED <<mkt_returns, factor_files, log, events, previous, val>>
    /\ UNCHANGED cliVars

SpecInterpret == InitInterpret /\ [][InterpretExposure]_vars

(***************************************************************************)
(* get_start_date (data/data_fetcher.py).  A str is the sequence of its    *)
(* characters; a date is a record [y, m, d] of the proleptic Gregorian     *)
(* calendar.                                                               *)
(***************************************************************************)
MaxPeriodLen == 3

\* the arguments of the analysis functions, unused by the data helpers and
\* the command-line program
libraryVars ==
    <<returns_df, portfolio_returns, interval, mkt_returns, factor_files, log,
      previous, val>>

LibraryIdle ==
    /\ returns_df = NotAFrame
    /\ portfolio_returns = NoSeries
    /\ interval = NoInterval
    /\ AnalyzerIdle

Text(chars) == [type |-> "str", text |-> chars]

NotText == [type |-> "int", text |-> <<>>]

Digits == <<"0", "1", "2", "3", "4", "5", "6", "7", "8", "9">>

LowerLetters ==
    {"a", "b", "c", "d", "e", "f", "g", "h", "i", "j", "k", "l", "m",
     "n", "o", "p", "q", "r", "s", "t", "u", "v", "w", "x", "y", "z"}

\* str.isdigit and str.isalpha on one ASCII character
IsDigit(c) == c \in Labels(Digits)

IsAlpha(c) ==
    c \in LowerLetters \cup
        {"A", "B", "C", "D", "E", "F", "G", "H", "I", "J", "K", "L", "M",
         "N", "O", "P", "Q", "R", "S", "T", "U", "V", "W", "X", "Y", "Z"}

DigitValue(c) == (CHOOSE i \in 1..10 : Digits[i] = c) - 1

\* int(value_str) on a non-empty run of digits
ToInt(chars) ==
    LET RECURSIVE value(_)
        value(n) == IF n = 0 THEN 0 ELSE 10 * value(n - 1) + DigitValue(chars[n])
    IN  value(Len(chars))

Date(y, m, d) == [y |-> y, m |-> m, d |-> d]

DaysInMonth(y, m) ==
    IF m = 2 THEN (IF (y % 4 = 0 /\ y % 100 # 0) \/ y % 400 = 0 THEN 29 ELSE 28)
    ELSE IF m \in {4, 6, 9, 11} THEN 30 ELSE 31

\* the number of the day, counted from 0001-01-01 as day 1
ToOrdinal(date) ==
    LET RECURSIVE before(_)
        before(m) == IF m = 1 THEN 0 ELSE before(m - 1) + DaysInMonth(date.y, m - 1)
        p == date.y - 1
    IN  365 * p + (p \div 4) - (p \div 100) + (p \div 400) + before(date.m) + date.d

FromOrdinal(n) ==
    LET y == CHOOSE yy \in (n \div 366)..(n \div 365 + 1) :
                 /\ ToOrdinal(Date(yy, 1, 1)) <= n
                 /\ n < ToOrdinal(Date(yy + 1, 1, 1))
        m == CHOOSE mm \in 1..12 :
                 /\ ToOrdinal(Date(y, mm, 1)) <= n
                 /\ n < ToOrdinal(Date(y, mm, 1)) + DaysInMonth(y, mm)
    IN  Date(y, m, n - ToOrdinal(Date(y, m, 1)) + 1)

\* pd.to_datetime on a str of the form YYYY-MM-DD; any other str drawn here
\* is one it cannot read
to_datetime(chars) ==
    IF /\ Len(chars) = 10
       /\ chars[5] = "-" /\ chars[8] = "-"
       /\ \A i \in {1, 2, 3, 4, 6, 7, 9, 10} : IsDigit(chars[i])
    THEN LET y == ToInt(SubSeq(chars, 1, 4))
             m == ToInt(SubSeq(chars, 6, 7))
             d == ToInt(SubSeq(chars, 9, 10))
         IN  IF y >= 1 /\ m \in 1..12 /\ d >= 1 /\ d <= DaysInMonth(y, m)
             THEN [ok |-> TRUE, date |-> Date(y, m, d)]
             ELSE [ok |-> FALSE, date |-> Date(0, 0, 0)]
    ELSE [ok |-> FALSE, date |-> Date(0, 0, 0)]

\* start.strftime("%Y-%m-%d"): every field written with its number of
\* digits, zeros in front
strftime(date) ==
    LET RECURSIVE pow(_)
        pow(e) == IF e = 0 THEN 1 ELSE 10 * pow(e - 1)
        Padded(n, w) == [i \in 1..w |-> Digits[((n \div pow(w - i)) % 10) + 1]]
    IN
    Padded(date.y, 4) \o <<"-">> \o Padded(date.m, 2) \o <<"-">> \o Padded(date.d, 2)

\* lines 44-45: the digits of the period, wherever they stand, and its
\* letters, wherever they stand
ParsePeriod(chars) ==
    [value_str |-> SelectSeq(chars, IsDigit), unit |-> SelectSeq(chars, IsAlpha)]

\* the str returned is the sequence of its characters.  Line 54 takes
\* pd.DateOffset(years=value) from the end date and line 56
\* pd.DateOffset(months=value): the same day of the month, cut to the length
\* of the month reached; line 58 takes pd.Timedelta(days=value)
get_start_date(end_arg, period_arg) ==
    IF end_arg.type # "str"
    THEN Raise("TypeError", "End date must be provided as a string.")
    ELSE IF period_arg.type # "str"
    THEN Raise("TypeError", "Time period must be provided as a string.")
    ELSE IF ~to_datetime(end_arg.text).ok
    THEN Raise("ValueError", "Invalid end date format")
    ELSE LET end == to_datetime(end_arg.text).date
             value_str == ParsePeriod(period_arg.text).value_str
             unit == ParsePeriod(period_arg.text).unit
             value == ToInt(value_str)
             Cut(y, m) ==
                 Date(y, m, IF end.d > DaysInMonth(y, m) THEN DaysInMonth(y, m)
                            ELSE end.d)
             MinusYears == Cut(end.y - value, end.m)
             months == end.y * 12 + (end.m - 1) - value
             MinusMonths == Cut(months \div 12, (months % 12) + 1)
             MinusDays == FromOrdinal(ToOrdinal(end) - value)
             StrOf(start) ==
                 [kind |-> "str", msg |-> "", index |-> <<>>, values |-> strftime(start)]
         IN  IF value_str = <<>> \/ unit = <<>>
             THEN Raise("ValueError", "Invalid period format")
             ELSE IF unit = <<"y">> THEN StrOf(MinusYears)
             ELSE IF unit = <<"m", "o">> THEN StrOf(MinusMonths)
             ELSE IF unit = <<"d">> THEN StrOf(MinusDays)
             ELSE Raise("ValueError", "Unsupported period unit")

(***************************************************************************)
(* The helper as a state machine: an end date and a period are drawn, then *)
(* get_start_date is called on them.                                       *)
(***************************************************************************)
InitStartDate ==
    /\ pc = "call"
    /\ LibraryIdle
    /\ result = NoResult
    /\ tickers = [type |-> "none", items |-> <<>>]
    /\ api = <<>>
    /\ betas = NoSeries
    /\ width = [type |-> "none", v |-> 0]
    /\ scale = [type |-> "none", v |-> 0]
    /\ stdout = <<>>
    /\ user_input = NoText
    /\ mkt_benchmark_ticker = ""
    /\ in_end \in
         {Text(strftime(Date(2025, 1, 1))), Text(strftime(Date(2024, 2, 29))),
          Text(strftime(Date(2025, 3, 31))), Text(strftime(Date(2025, 13, 1))), NotText}
    /\ \/ in_period = NotText
       \/ \E n \in 0..MaxPeriodLen :
            \E chars \in [1..n -> {"1", "2", "y", "m", "o", "d", "w"}] :
            in_period = Text(chars)

GetStartDate ==
    /\ pc = "call"
    /\ pc' = "start_date"
    /\ result' = get_start_date(in_end, in_period)
    /\ UNCHANGED <<in_end, in_period, events>>
    /\ UNCHANGED <<tickers, api, betas, width, scale,
                   stdout, user_input, mkt_benchmark_ticker>>
    /\ UNCHANGED libraryVars

SpecStartDate == InitStartDate /\ [][GetStartDate]_vars

(***************************************************************************)
(* check_validity_tickers (utils/validity_input_check.py).  The Yahoo      *)
(* Finance lookup is the environment: api holds, for every position of the *)
(* list, what check_valid_ticker_with_API does when called there.          *)
(***************************************************************************)
MaxTickers == 3

List(items) == [type |-> "list", items |-> items]

Bool(b) == [kind |-> "bool", msg |-> "", index |-> <<>>, values |-> <<b>>]

\* str.strip(): the whitespace at both ends removed
Strip(chars) ==
    LET kept == {i \in 1..Len(chars) : chars[i] \notin {" ", "\t", "\n"}}
    IN  IF kept = {} THEN <<>>
        ELSE SubSeq(chars,
                    CHOOSE i \in kept : \A j \in kept : i <= j,
                    CHOOSE i \in kept : \A j \in kept : j <= i)

\* a character of the class [A-Za-z0-9\-\.\^]
InClass(c) == IsAlpha(c) \/ IsDigit(c) \/ c \in {"-", ".", "^"}

\* A plausible slip: any non-empty ticker passed on to the lookup.
MatchAnything(chars) == Len(chars) >= 1

\* pattern.match(ticker) for ^[A-Za-z0-9\-\.\^]+$ : one or more characters of
\* the class up to the end, or up to a newline that ends the str
Match(chars) ==
    \/ Len(chars) >= 1 /\ \A i \in 1..Len(chars) : InClass(chars[i])
    \/ /\ Len(chars) >= 2 /\ chars[Len(chars)] = "\n"
       /\ \A i \in 1..(Len(chars) - 1) : InClass(chars[i])

\* lines 45-50: the lookups made one ticker after the other, up to the first
\* that does not answer True
ApiLoop(stripped, outcomes) ==
    LET RECURSIVE from(_)
        from(i) ==
            IF i > Len(stripped) THEN [result |-> Bool(TRUE), events |-> <<>>]
            ELSE LET called == <<Event("check_valid_ticker_with_API", stripped[i])>>
                 IN  IF outcomes[i] # "True"
                     THEN [result |-> Bool(FALSE), events |-> called]
                     ELSE [result |-> from(i + 1).result,
                           events |-> called \o from(i + 1).events]
    IN  from(1)

\* the value returned and the lookups made, in order
check_validity_tickers(arg, outcomes) ==
    IF arg.type # "list" THEN [result |-> Bool(FALSE), events |-> <<>>]
    ELSE IF arg.items = <<>> THEN [result |-> Bool(FALSE), events |-> <<>>]
    ELSE IF \E i \in 1..Len(arg.items) : arg.items[i].type # "str"
    THEN [result |-> Bool(FALSE), events |-> <<>>]
    ELSE LET stripped == [i \in 1..Len(arg.items) |-> Strip(arg.items[i].text)]
         IN  IF \E i \in 1..Len(stripped) : Len(stripped[i]) < 1
             THEN [result |-> Bool(FALSE), events |-> <<>>]
             ELSE IF \E i \in 1..Len(stripped) : ~Match(stripped[i])
             THEN [result |-> Bool(FALSE), events |-> <<>>]
             ELSE ApiLoop(stripped, outcomes)

(***************************************************************************)
(* The check as a state machine: a list and the answers of the lookup are  *)
(* drawn, then check_validity_tickers is called.                           *)
(***************************************************************************)
ApiOutcomes == {"True", "False", "raise"}

InitTickers ==
    /\ pc = "call"
    /\ LibraryIdle
    /\ result = NoResult
    /\ in_end = NoText
    /\ in_period = NoText
    /\ betas = NoSeries
    /\ width = [type |-> "none", v |-> 0]
    /\ scale = [type |-> "none", v |-> 0]
    /\ stdout = <<>>
    /\ user_input = NoText
    /\ mkt_benchmark_ticker = ""
    /\ \/ tickers = [type |-> "str", items |-> <<>>] /\ api = <<>>
       \/ \E n \in 0..MaxTickers :
            \E items \in [1..n ->
                    {Text(<<"A", "B">>), Text(<<" ", "C", " ">>), Text(<<>>),
                     Text(<<" ">>), Text(<<"^", "G", ".", "b", "-", "1">>),
                     Text(<<"A", "$">>), Text(<<"A", " ", "B">>), NotText}],
               outcomes \in [1..n -> ApiOutcomes] :
                tickers = List(items) /\ api = outcomes

CheckValidityTickers ==
    /\ pc = "call"
    /\ pc' = "tickers"
    /\ LET out == check_validity_tickers(tickers, api)
       IN  result' = out.result /\ events' = out.events
    /\ UNCHANGED <<tickers, api>>
    /\ UNCHANGED <<in_end, in_period, betas, width, scale,
                   stdout, user_input, mkt_benchmark_ticker>>
    /\ UNCHANGED libraryVars

SpecTickers == InitTickers /\ [][CheckValidityTickers]_vars

(***************************************************************************)
(* analyze_factor_exposures (analysis/portfolio_analyzer.py).  A bar is    *)
(* the sequence of its characters, "_" for the low block and "#" for the   *)
(* full block; stdout is the sequence of the lines printed.                *)
(***************************************************************************)
MaxBetas == 2

MaxBarWidth == 40

\* the two characters of a bar
Block == [low |-> "_", full |-> "#"]

Betas(index, values, dtype) ==
    [type |-> "Series", index |-> index, values |-> values, dtype |-> dtype]

Repeat(c, n) == [i \in 1..n |-> c]

\* int(x): the fraction cut off, towards zero
Trunc(x) == IF x.n >= 0 THEN x.n \div x.d ELSE -((-x.n) \div x.d)

\* max(min(value, scale), -scale)
Clamp(value, s) ==
    LET lower == IF Less(s, value) THEN s ELSE value
    IN  IF Less(lower, Neg(s)) THEN Neg(s) ELSE lower

\* lines 296-312: the bar of one beta
Bar(value, w, s) ==
    LET midpoint == w \div 2
        clamped == Clamp(value, s)
        scaled == Trunc(Mul(Div(clamped, s), Int2Num(midpoint)))
    IN  IF scaled > 0
        THEN Repeat(Block.low, midpoint) \o Repeat(Block.full, scaled) \o Repeat(Block.low, midpoint - scaled)
        ELSE IF scaled < 0
        THEN Repeat(Block.low, midpoint - Abs(scaled)) \o Repeat(Block.full, Abs(scaled))
                 \o Repeat(Block.low, midpoint)
        ELSE Repeat(Block.low, w)

\* line 315: a printed line; the beta is kept as the number it is, not as the
\* text of its two decimals
Line(factor, bar, value, exposure) ==
    [factor |-> factor, bar |-> bar, value |-> value, exposure |-> exposure]

\* lines 289-318: the header, then one line per beta, until a beta cannot be
\* interpreted; betas.items() hands out a float of a float64 Series and an
\* integer of an int64 Series
PrintLoop(b, w, s) ==
    LET Item(i) == Value(IF b.dtype = "float64" THEN "float" ELSE "int", b.values[i])
        Header == Line("=== Realized Factor Exposures ===", <<>>, Int2Num(0), "")
        RECURSIVE from(_, _)
        from(i, printed) ==
            IF i > Len(b.values) THEN [result |-> None, stdout |-> printed]
            ELSE LET exposure == interpret_exposure(Item(i))
                 IN  IF exposure.kind # "str"
                     THEN [result |-> Raise("RuntimeError", "Failed to visualize factor"),
                           stdout |-> printed]
                     ELSE from(i + 1,
                               Append(printed,
                                      Line(b.index[i], Bar(b.values[i], w, s),
                                           b.values[i], exposure.msg)))
    IN  from(1, <<Header>>)

\* the outcome of the call and the lines it printed
analyze_factor_exposures(b, w, s) ==
    LET raised(kind, msg) == [result |-> Raise(kind, msg), stdout |-> <<>>]
    IN  IF b.type # "Series"
        THEN raised("TypeError", "Betas must be provided as pandas Series.")
        ELSE IF b.dtype \notin {"float64", "int64"}
        THEN raised("TypeError", "All values in betas must be numeric.")
        ELSE IF w.type # "int" THEN raised("TypeError", "Width must be an integer.")
        ELSE IF s.type # "float"
        THEN raised("TypeError", "Scale must be a floating point number.")
        ELSE IF Len(b.values) = 0
        THEN raised("ValueError", "Betas must contain at least one value.")
        ELSE IF \E i \in 1..Len(b.values) : ~IsFinite(b.values[i])
        THEN raised("ValueError", "Betas must not contain NaN or infinite values.")
        ELSE IF w.v <= 0 \/ w.v > MaxBarWidth
        THEN raised("ValueError", "Width must be a positive integer no greater than 40.")
        ELSE IF ~Less(Int2Num(0), s.v)
        THEN raised("ValueError", "Scale must be a positive floating point number.")
        ELSE PrintLoop(b, w.v, s.v)

(***************************************************************************)
(* The chart as a state machine: the betas, a width and a scale are drawn, *)
(* then analyze_factor_exposures is called on them.                        *)
(***************************************************************************)
InitBars ==
    /\ pc = "call"
    /\ LibraryIdle
    /\ result = NoResult
    /\ in_end = NoText
    /\ in_period = NoText
    /\ tickers = [type |-> "none", items |-> <<>>]
    /\ api = <<>>
    /\ user_input = NoText
    /\ mkt_benchmark_ticker = ""
    /\ stdout = <<>>
    /\ \/ betas = [type |-> "list", index |-> <<>>, values |-> <<>>, dtype |-> "object"]
       \/ betas = Betas(<<"Mkt_rf">>, <<Int2Num(1)>>, "object")
       \/ \E n \in 0..MaxBetas :
            \E v \in [1..n -> {Fin(-3, 2), Fin(-1, 1), Fin(-1, 2), Fin(-1, 10),
                                Int2Num(0), Fin(3, 10), Int2Num(1), NaN, Inf(1)}] :
            \/ betas = Betas(SubSeq(Regressors, 1, n), v, "float64")
            \/ /\ \A i \in 1..n : v[i].k = "fin" /\ v[i].d = 1
               /\ betas = Betas(SubSeq(Regressors, 1, n), v, "int64")
    /\ width \in {Value("int", w) : w \in -1..(MaxBarWidth + 1)}
                    \cup {Value("float", 20)}
    /\ scale \in
         {Value("float", Fin(1, 2)), Value("float", Int2Num(1)),
          Value("float", Fin(2, 1)), Value("float", Int2Num(0)),
          Value("float", Fin(-1, 1)), Value("int", Int2Num(1))}

AnalyzeFactorExposures ==
    /\ pc = "call"
    /\ pc' = "exposures"
    /\ LET out == analyze_factor_exposures(betas, width, scale)
       IN  result' = out.result /\ stdout' = out.stdout
    /\ UNCHANGED <<betas, width, scale, events>>
    /\ UNCHANGED <<in_end, in_period, tickers, api, user_input,
                   mkt_benchmark_ticker>>
    /\ UNCHANGED libraryVars

SpecBars == InitBars /\ [][AnalyzeFactorExposures]_vars

(***************************************************************************)
(* main (main.py).  The user, Yahoo Finance and the factor files are the   *)
(* environment: what is typed, what the lookups answer, what the downloads *)
(* return and which files are on disk is drawn where main asks for it.     *)
(* events is the sequence of the calls main made, each with its outcome;   *)
(* result is None once main has returned, and the exception where one      *)
(* leaves main.                                                            *)
(***************************************************************************)
MaxPrompts == 2

MinPeriods == 5

DefaultWidth == 20

valid_mkt_benchmarks == <<"^IXIC", "^GSPC", "^RUT">>

benchmark_names == <<"NASDAQ Composite Index", "S&P 500 Index", "Russell 2000 Index">>

\* two characters outside ASCII for which str.isdigit() is true
SuperscriptTwo == "SUPERSCRIPT TWO"

ArabicIndicThree == "ARABIC-INDIC DIGIT THREE"

\* a character int() reads: a decimal digit of any script
IsDecimalChar(c) == IsDigit(c) \/ c = ArabicIndicThree

\* user_input.isdigit(): every character is a decimal digit or a character
\* that only looks like a digit, such as the superscripts
isdigit(chars) ==
    /\ Len(chars) >= 1
    /\ \A i \in 1..Len(chars) :
           IsDigit(chars[i]) \/ chars[i] \in {SuperscriptTwo, ArabicIndicThree}

\* int(user_input) on a str of such characters: the number, or ValueError
int(chars) ==
    LET DecimalValue(c) == IF c = ArabicIndicThree THEN 3 ELSE DigitValue(c)
        RECURSIVE value(_)
        value(n) == IF n = 0 THEN 0 ELSE 10 * value(n - 1) + DecimalValue(chars[n])
    IN  IF \E i \in 1..Len(chars) : ~IsDecimalChar(chars[i])
        THEN [raised |-> TRUE, value |-> 0]
        ELSE [raised |-> FALSE, value |-> value(Len(chars))]

\* str.upper()
Upper(chars) ==
    LET UpperOf ==
    [a |-> "A", b |-> "B", c |-> "C", d |-> "D", e |-> "E", f |-> "F", g |-> "G",
     h |-> "H", i |-> "I", j |-> "J", k |-> "K", l |-> "L", m |-> "M", n |-> "N",
     o |-> "O", p |-> "P", q |-> "Q", r |-> "R", s |-> "S", t |-> "T", u |-> "U",
     v |-> "V", w |-> "W", x |-> "X", y |-> "Y", z |-> "Z"]
    IN
    [i \in 1..Len(chars) |->
        IF chars[i] \in LowerLetters THEN UpperOf[chars[i]] ELSE chars[i]]

\* str.split(sep): the pieces between the separators, empty pieces included
Split(chars, sep) ==
    LET RECURSIVE parts(_, _)
        parts(i, current) ==
            IF i > Len(chars) THEN <<current>>
            ELSE IF chars[i] = sep THEN <<current>> \o parts(i + 1, <<>>)
            ELSE parts(i + 1, Append(current, chars[i]))
    IN  parts(1, <<>>)

\* a line printed by main
Message(text) == Line(text, <<>>, Int2Num(0), "")

InvalidInput == Message("Invalid input. Please enter 1, 2, or 3.")

\* A plausible slip: a handler for ValueError alone.
IsValueError(kind) == kind = "ValueError"

\* line 122: except Exception; every class the callees raise derives from it
IsException(kind) ==
    kind \in {"TypeError", "ValueError", "RuntimeError", "FileNotFoundError",
              "KeyError", "LinAlgError", "MissingDataError", "HTTPError"}

\* lines 122-123: an exception raised inside the try block of main
Unexpected(raised, printed) ==
    IF IsException(raised.kind)
    THEN [result |-> None,
          stdout |-> Append(printed,
                            Message("An unexpected error occurred. Program terminated."))]
    ELSE [result |-> raised, stdout |-> printed]

\* lines 67-75: one pass of the prompt loop on the line typed
prompt(typed, printed) ==
    LET stripped == Strip(typed)
        again == [pc |-> "prompt", ticker |-> "", result |-> NoResult,
                  stdout |-> Append(printed, InvalidInput)]
    IN  IF ~isdigit(stripped) THEN again
        ELSE IF int(stripped).raised
        THEN LET out == Unexpected(Raise("ValueError",
                                         "invalid literal for int() with base 10"),
                                   printed)
             IN  [pc |-> "done", ticker |-> "", result |-> out.result,
                  stdout |-> out.stdout]
        ELSE IF 1 <= int(stripped).value
                /\ int(stripped).value <= Len(valid_mkt_benchmarks)
        THEN [pc |-> "download",
              ticker |-> valid_mkt_benchmarks[int(stripped).value],
              result |-> NoResult,
              stdout |-> printed \o <<Message("You selected"),
                                      Message("Downloading return data...")>>]
        ELSE again

\* A plausible slip: the check of the number of periods left out.
TooFewPeriodsUnchecked(df) == FALSE

\* returns_df.shape[0] < 5
TooFewPeriods(df) == NRows(df) < MinPeriods

\* the variables main does not use
idleVars == <<interval, log, previous, val, in_end, in_period, width, scale>>

InitMain ==
    /\ pc = "main"
    /\ LibraryIdle
    /\ CliIdle
    /\ result = NoResult

\* lines 41-53: the banner, the tickers typed, the check of their number
EnterTickers ==
    /\ pc = "main"
    /\ \E typed \in
          {<<>>, <<"a">>, <<"a", ",", "b">>, <<" ", "a", " ", ",", "b", ".", "c">>,
           <<"a", ",", ",", "b">>, <<"a", ",", "$">>, <<"a", ",", "b", ",", "c">>} :
         LET split == Split(Upper(typed), ",")
             stripped == [i \in 1..Len(split) |-> Text(Strip(split[i]))]
             banner == <<Message("=== Factor Tilt Analyzer ===")>>
         IN  /\ tickers' = List(stripped)
             /\ IF Len(stripped) < 2
                THEN /\ pc' = "done"
                     /\ result' = None
                     /\ stdout' = Append(banner,
                            Message("The program failed because at least two tickers are required to calculate the minimum variance portfolio."))
                ELSE /\ pc' = "validate"
                     /\ result' = result
                     /\ stdout' = Append(banner, Message("You selected"))
    /\ UNCHANGED <<api, events, user_input, mkt_benchmark_ticker, betas>>
    /\ UNCHANGED <<returns_df, portfolio_returns, mkt_returns, factor_files>>
    /\ UNCHANGED idleVars

\* lines 55-63: the tickers checked, the options printed
ValidateTickers ==
    /\ pc = "validate"
    /\ \E outcomes \in [1..Len(tickers.items) -> ApiOutcomes] :
         LET valid == check_validity_tickers(tickers, outcomes).result = Bool(TRUE)
         IN  /\ api' = outcomes
             /\ events' = Append(events, Event("check_validity_tickers",
                                               IF valid THEN "True" ELSE "False"))
             /\ IF ~valid
                THEN /\ pc' = "done"
                     /\ result' = None
                     /\ stdout' = Append(stdout,
                            Message("The program failed because of invalid tickers. Please make sure to provide valid tickers and restart the program."))
                ELSE /\ pc' = "prompt"
                     /\ result' = result
                     /\ stdout' = stdout \o
                            <<Message("What market index would you like to choose as a benchmark?")>>
                            \o [i \in 1..Len(benchmark_names) |-> Message(benchmark_names[i])]
    /\ UNCHANGED <<tickers, user_input, mkt_benchmark_ticker, betas>>
    /\ UNCHANGED <<returns_df, portfolio_returns, mkt_returns, factor_files>>
    /\ UNCHANGED idleVars

\* lines 66-78: one line typed at the prompt
BenchmarkPrompt ==
    /\ pc = "prompt"
    /\ \E typed \in
          {<<"1">>, <<"2">>, <<"3">>, <<" ", "2", " ">>, <<"0", "1">>, <<"0">>, <<"4">>,
           <<"1", "2">>, <<>>, <<"x">>, <<"1", ".", "0">>, <<"+", "1">>,
           <<SuperscriptTwo>>, <<ArabicIndicThree>>} :
         /\ prompt(typed, stdout).pc = "prompt" =>
                Cardinality({i \in 1..Len(stdout) : stdout[i] = InvalidInput}) < MaxPrompts
         /\ user_input' = Text(Strip(typed))
         /\ pc' = prompt(typed, stdout).pc
         /\ mkt_benchmark_ticker' = prompt(typed, stdout).ticker
         /\ result' = prompt(typed, stdout).result
         /\ stdout' = prompt(typed, stdout).stdout
    /\ UNCHANGED <<tickers, api, events, betas>>
    /\ UNCHANGED <<returns_df, portfolio_returns, mkt_returns, factor_files>>
    /\ UNCHANGED idleVars

\* lines 81-96: the two downloads and the checks of what they returned.
\* fetch_returns hands back two assets over nr months, their returns
\* independent or identical; fetch_benchmark_returns hands back the column
\* MKT
Download ==
    /\ pc = "download"
    /\ \E fetched \in {"both", "returns failed", "benchmark failed"},
          nr \in {0, MinPeriods - 1, MinPeriods},
          pattern \in {"independent", "identical"},
          market \in {ReturnsOn(1, MinPeriods, "finite", "datetime64[ns]"),
                      ReturnsOn(1, MinPeriods, "infinite last", "datetime64[ns]"),
                      ReturnsOn(MinPeriods + 1, MinPeriods, "finite", "datetime64[ns]"),
                      ReturnsOn(1, 0, "finite", "datetime64[ns]")} :
         LET frame ==
                 Frame(SubSeq(Tickers, 1, 2), DateRange(1, nr),
                       [t \in 1..nr |->
                           <<IF t % 2 = 1 THEN 1 ELSE -1,
                             IF pattern = "identical" THEN (IF t % 2 = 1 THEN 1 ELSE -1)
                             ELSE IF t % 4 \in {1, 2} THEN 1 ELSE -1>>],
                       {})
             stop(text) ==
                 /\ pc' = "done"
                 /\ result' = None
                 /\ stdout' = Append(stdout, Message(text))
         IN  /\ events' =
                    IF fetched = "returns failed"
                    THEN Append(events, Event("fetch_returns", "raised"))
                    ELSE events \o
                         <<Event("fetch_returns", "returned"),
                           Event("fetch_benchmark_returns",
                                 IF fetched = "both" THEN "returned" ELSE "raised")>>
             /\ IF fetched # "both"
                THEN /\ stop("Failed to download return data. Program terminated.")
                     /\ UNCHANGED <<returns_df, mkt_returns>>
                ELSE /\ returns_df' = frame
                     /\ mkt_returns' = market
                     /\ IF IsEmptyFrame(frame)
                        THEN stop("No return data found for the selected tickers. Program terminated.")
                        ELSE IF Len(market.values) = 0
                        THEN stop("No return data found for the market benchmark. Program terminated.")
                        ELSE IF TooFewPeriods(frame)
                        THEN stop("Not enough return data to analyze the portfolio (need at least 5 periods). Program terminated.")
                        ELSE /\ pc' = "portfolio"
                             /\ result' = result
                             /\ stdout' = stdout
    /\ UNCHANGED <<tickers, api, user_input, mkt_benchmark_ticker, betas>>
    /\ UNCHANGED <<portfolio_returns, factor_files>>
    /\ UNCHANGED idleVars

\* lines 99-111: the portfolio and the check of the shared dates; mvp is
\* what the one call of line 99 returned or raised
Portfolio ==
    /\ pc = "portfolio"
    /\ \E mvp \in {calculate_mvp_portfolio(returns_df)} :
         /\ events' = Append(events,
                             Event("calculate_mvp_portfolio",
                                   IF mvp.kind = "Series" THEN "returned" ELSE "raised"))
         /\ IF mvp.kind # "Series"
            THEN /\ pc' = "done"
                 /\ result' = Unexpected(mvp, stdout).result
                 /\ stdout' = Unexpected(mvp, stdout).stdout
                 /\ UNCHANGED portfolio_returns
            ELSE /\ portfolio_returns' =
                        DatedSeries(mvp.index, mvp.values, "datetime64[ns]")
                 /\ IF Intersection(returns_df.index, mkt_returns.index) = {}
                    THEN /\ pc' = "done"
                         /\ result' = None
                         /\ stdout' = Append(stdout,
                                Message("No overlapping dates between portfolio and market benchmark. Program terminated."))
                    ELSE /\ pc' = "compare"
                         /\ result' = result
                         /\ stdout' = Append(stdout,
                                             Message("Portfolio vs. Benchmark Statistics:"))
    /\ UNCHANGED <<tickers, api, user_input, mkt_benchmark_ticker, betas>>
    /\ UNCHANGED <<returns_df, mkt_returns, factor_files>>
    /\ UNCHANGED idleVars

\* line 113: the two statistics blocks.  Once its checks pass, the call
\* returns: the statistics of a non-empty finite series are a full record
\* and printing a full record raises nothing.
CompareStatistics ==
    /\ pc = "compare"
    /\ LET monthly == [type |-> "str", value |-> "monthly"]
           raised == CompareValidation(portfolio_returns, mkt_returns, monthly).kind # "none"
       IN  /\ events' = Append(events,
                               Event("compare_portfolio_with_market_benchmark",
                                     IF raised THEN "raised" ELSE "returned"))
           /\ IF raised
              THEN /\ pc' = "done"
                   /\ result' = Unexpected(CompareValidation(portfolio_returns, mkt_returns,
                                                             monthly), stdout).result
                   /\ stdout' = Unexpected(CompareValidation(portfolio_returns, mkt_returns,
                                                             monthly), stdout).stdout
              ELSE /\ pc' = "regression"
                   /\ result' = result
                   /\ stdout' = stdout \o <<Message("Minimum Variance Portfolio"),
                                            Message("Market Benchmark")>>
    /\ UNCHANGED <<tickers, api, user_input, mkt_benchmark_ticker, betas>>
    /\ UNCHANGED <<returns_df, portfolio_returns, mkt_returns, factor_files>>
    /\ UNCHANGED idleVars

\* line 117: the regression on the factor files found on disk; fit holds
\* the numbers of a fit, the least-squares solution itself is not computed
FactorRegression ==
    /\ pc = "regression"
    /\ \E files \in FactorEnvironments,
          fit \in {<<Fin(9, 10), Fin(-1, 5), Int2Num(0), Fin(-3, 2)>>,
                   <<Fin(1, 20), Fin(1, 2), Fin(-7, 10), Int2Num(1)>>} :
         \E fit_result \in {factor_analysis_regression(portfolio_returns, mkt_returns,
                                                        TRUE, files).result} :
         LET fitted == fit_result.kind = "Series"
         IN  /\ factor_files' = files
             /\ events' = Append(events,
                                 Event("factor_analysis_regression",
                                       IF fitted THEN "returned" ELSE "raised"))
             /\ IF fitted
                THEN /\ pc' = "exposures"
                     /\ betas' = Betas(Regressors, fit, "float64")
                     /\ result' = result
                     /\ stdout' = stdout
                ELSE /\ pc' = "done"
                     /\ UNCHANGED betas
                     /\ result' = Unexpected(fit_result, stdout).result
                     /\ stdout' = Unexpected(fit_result, stdout).stdout
    /\ UNCHANGED <<tickers, api, user_input, mkt_benchmark_ticker>>
    /\ UNCHANGED <<returns_df, portfolio_returns, mkt_returns>>
    /\ UNCHANGED idleVars

\* line 120: the chart of the betas, with the default width and scale
FactorExposures ==
    /\ pc = "exposures"
    /\ \E out \in {analyze_factor_exposures(betas, Value("int", DefaultWidth),
                                              Value("float", Int2Num(1)))} :
           /\ pc' = "done"
           /\ events' = Append(events,
                               Event("analyze_factor_exposures",
                                     IF out.result = None THEN "returned" ELSE "raised"))
           /\ IF out.result = None
              THEN result' = None /\ stdout' = stdout \o out.stdout
              ELSE /\ result' = Unexpected(out.result, stdout \o out.stdout).result
                   /\ stdout' = Unexpected(out.result, stdout \o out.stdout).stdout
    /\ UNCHANGED <<tickers, api, user_input, mkt_benchmark_ticker, betas>>
    /\ UNCHANGED <<returns_df, portfolio_returns, mkt_returns, factor_files>>
    /\ UNCHANGED idleVars

NextMain ==
    \/ EnterTickers
    \/ ValidateTickers
    \/ BenchmarkPrompt
    \/ Download
    \/ Portfolio
    \/ CompareStatistics
    \/ FactorRegression
    \/ FactorExposures

SpecMain == InitMain /\ [][NextMain]_vars

(***************************************************************************)
(* Properties of the optimizer.                                            *)
(***************************************************************************)
\* the preconditions of calculate_mvp_weights, as the specification states them
ValidMatrix(df) ==
    /\ df.type = "DataFrame"
    /\ NRows(df) > 0 /\ NCols(df) > 0
    /\ df.na = {}
    /\ NCols(df) >= 2
    /\ NRows(df) > NCols(df)

Invertible(df) == ~IsSingular(cov(df))

\* C1: for every return matrix that passes all preconditions and has an
\* invertible covariance matrix, calculate_mvp_weights returns weights whose
\* sum is 1 (exactly, in exact arithmetic).
C1_WeightsSumToOne ==
    (pc = "mvp_weights" /\ ValidMatrix(returns_df) /\ Invertible(returns_df))
        => (result.kind = "Series" /\ SumSeq(result.values) = Int2Num(1))

C1_Witness ==
    /\ pc = "mvp_weights" /\ ValidMatrix(returns_df) /\ Invertible(returns_df)
    /\ result.kind = "Series"
    /\ \E i \in 1..Len(result.values) : result.values[i] # Fin(1, 2)
    /\ SumSeq(result.values) = Int2Num(1)

\* C2: the weight vector returned by calculate_mvp_weights is keyed by exactly
\* the matrix's column labels, one weight per column, in the order of the
\* columns.
C2_WeightsKeyedByColumns ==
    (pc = "mvp_weights" /\ ValidMatrix(returns_df) /\ Invertible(returns_df))
        => /\ result.kind = "Series"
           /\ result.index = returns_df.columns
           /\ Len(result.values) = NCols(returns_df)

C2_Witness ==
    /\ pc = "mvp_weights" /\ result.kind = "Series"
    /\ returns_df.columns = <<"GOOG", "AAPL">>
    /\ result.index = <<"GOOG", "AAPL">>
    /\ result.values[1] # result.values[2]

\* C3: for every valid return matrix with an invertible covariance matrix,
\* calculate_mvp_portfolio returns a series whose date index is the matrix's
\* index (same dates, same order, same length); whenever it returns a series at
\* all, the series carries the matrix's index.
C3_PortfolioIndexIsMatrixIndex ==
    /\ (pc = "mvp_portfolio" /\ ValidMatrix(returns_df) /\ Invertible(returns_df))
          => (result.kind = "Series" /\ result.index = returns_df.index
              /\ Len(result.values) = NRows(returns_df))
    /\ (pc = "mvp_portfolio" /\ result.kind = "Series")
          => result.index = returns_df.index

C3_Witness ==
    /\ pc = "mvp_portfolio" /\ result.kind = "Series"
    /\ returns_df.index = <<3, 2, 1>>
    /\ result.index = <<3, 2, 1>>
    /\ Len(result.values) = 3

\* C4 as stated: with no missing values and n >= 2 columns, exactly n + 1 rows
\* succeed and return weights, and exactly n rows fail with ValueError.
C4_Original ==
    (pc = "mvp_weights" /\ returns_df.type = "DataFrame" /\ returns_df.na = {}
     /\ NCols(returns_df) >= 2)
        => /\ (NRows(returns_df) = NCols(returns_df) + 1 => result.kind = "Series")
           /\ (NRows(returns_df) = NCols(returns_df) => result.kind = "ValueError")

\* C4 (amended): with no missing values and n >= 2 columns, exactly n + 1 rows
\* pass the row-count precondition: the call returns weights when the covariance
\* matrix is invertible and fails with the singular-matrix ValueError when it is
\* not; exactly n rows fail with the ValueError of the row-count precondition.
C4_RowBoundary ==
    (pc = "mvp_weights" /\ returns_df.type = "DataFrame" /\ returns_df.na = {}
     /\ NCols(returns_df) >= 2)
        => /\ (NRows(returns_df) = NCols(returns_df) + 1
                 => IF Invertible(returns_df)
                    THEN result.kind = "Series"
                    ELSE result = Raise("ValueError", Msg.singular))
           /\ (NRows(returns_df) = NCols(returns_df)
                 => result = Raise("ValueError", Msg.obs))

C4_Witness ==
    /\ pc = "mvp_weights" /\ returns_df.type = "DataFrame" /\ returns_df.na = {}
    /\ NCols(returns_df) = 2 /\ NRows(returns_df) = 3
    /\ result.kind = "Series"

ValidationKinds ==
    {Raise("ValueError", Msg.empty).kind, Raise("ValueError", Msg.nan).kind,
     Raise("ValueError", Msg.assets).kind, Raise("ValueError", Msg.obs).kind}

\* C6 as stated: the failure for a singular covariance matrix has an error kind
\* that no precondition failure has.
C6_Original ==
    (pc = "mvp_weights" /\ ValidMatrix(returns_df) /\ ~Invertible(returns_df))
        => result.kind \notin ValidationKinds

\* C6 (amended): the failure for a singular covariance matrix has the same error
\* kind, ValueError, as the precondition failures; it differs from them only in
\* its message.
C6_SingularIsValueError ==
    (pc = "mvp_weights" /\ ValidMatrix(returns_df) /\ ~Invertible(returns_df))
        => /\ result.kind = "ValueError"
           /\ result.msg \notin {Msg.empty, Msg.nan, Msg.assets, Msg.obs}

C6_Witness ==
    /\ pc = "mvp_weights" /\ ValidMatrix(returns_df) /\ ~Invertible(returns_df)
    /\ result = Raise("ValueError", Msg.singular)

\* the first precondition a frame violates, in the order: non-empty, no missing
\* values, at least 2 columns, more rows than columns
FirstViolated(df) ==
    IF NRows(df) = 0 \/ NCols(df) = 0 THEN Msg.empty
    ELSE IF df.na # {} THEN Msg.nan
    ELSE IF NCols(df) < 2 THEN Msg.assets
    ELSE Msg.obs

\* C7: for every DataFrame that violates a precondition, calculate_mvp_weights
\* raises ValueError with the message of the first violated precondition, and
\* returns no weights.
C7_FirstViolatedNamed ==
    (pc = "mvp_weights" /\ returns_df.type = "DataFrame" /\ ~ValidMatrix(returns_df))
        => result = Raise("ValueError", FirstViolated(returns_df))

\* a frame that violates two preconditions: a missing value and a single column
C7_Witness ==
    /\ pc = "mvp_weights" /\ returns_df.type = "DataFrame"
    /\ NCols(returns_df) = 1 /\ returns_df.na # {}
    /\ result = Raise("ValueError", Msg.nan)

(***************************************************************************)
(* Properties of the statistics engine.                                    *)
(***************************************************************************)
Stat(key) == Lookup(result, key)

\* a non-empty series of finite values and a recognised interval
ValidStatsInput ==
    /\ portfolio_returns.type = "Series"
    /\ Len(portfolio_returns.values) >= 1
    /\ \A i \in 1..Len(portfolio_returns.values) : portfolio_returns.values[i].k = "fin"
    /\ interval.type = "str"
    /\ Lower(interval.value) \in {"daily", "monthly", "yearly"}

ConstantZero ==
    \A i \in 1..Len(portfolio_returns.values) : portfolio_returns.values[i] = Int2Num(0)

\* C8: on a constant-zero series of any length >= 1 the statistics are
\* mean_return = annualized_return = std_dev = annualized_volatility =
\* cumulative_return = max_drawdown = 0 and sharpe_ratio is not-a-number.
C8_ZeroSeriesStatistics ==
    (pc = "stats" /\ ValidStatsInput /\ ConstantZero)
        => /\ result.kind = "dict"
           /\ \A key \in {"mean_return", "annualized_return", "std_dev",
                          "annualized_volatility", "cumulative_return", "max_drawdown"} :
                  Stat(key) = Int2Num(0)
           /\ IsNaN(Stat("sharpe_ratio"))

\* C9: for every non-empty all-finite series and recognised interval,
\* calculate_portfolio_statistics raises no error; sharpe_ratio is
\* not-a-number when annualized_volatility is exactly zero and is otherwise
\* annualized_return / annualized_volatility.
C9_SharpeSentinel ==
    (pc = "stats" /\ ValidStatsInput)
        => /\ result.kind = "dict"
           /\ IF Stat("annualized_volatility") = Int2Num(0)
              THEN IsNaN(Stat("sharpe_ratio"))
              ELSE Stat("sharpe_ratio")
                     = Div(Stat("annualized_return"), Stat("annualized_volatility"))

\* a constant non-zero series: zero volatility, non-zero annualized return
C9_Witness ==
    /\ pc = "stats" /\ ValidStatsInput
    /\ Len(portfolio_returns.values) >= 2
    /\ result.kind = "dict"
    /\ Stat("annualized_volatility") = Int2Num(0)
    /\ Stat("annualized_return") # Int2Num(0)
    /\ IsNaN(Stat("sharpe_ratio"))

\* C10: every field of every statistics record returned by
\* calculate_portfolio_statistics is a finite number.
C10_AllFieldsFinite ==
    (pc = "stats" /\ result.kind = "dict")
        => \A i \in 1..Len(result.values) : IsFinite(result.values[i])

\* the spellings of the three frequency tags and the multiplier of each
RecognisedTags ==
    [daily |-> 252, DAILY |-> 252, monthly |-> 12, Monthly |-> 12, yearly |-> 1]

\* a series that passes every check made before the interval is looked up
FiniteSeriesAndTextInterval ==
    /\ portfolio_returns.type = "Series"
    /\ Len(portfolio_returns.values) >= 1
    /\ \A i \in 1..Len(portfolio_returns.values) : portfolio_returns.values[i].k = "fin"
    /\ interval.type = "str"

\* C11: calculate_portfolio_statistics accepts exactly daily, monthly and
\* yearly in any letter case, with annualized_return = mean_return * 252, 12
\* and 1 respectively; any other interval string raises ValueError and no
\* statistics record is returned.
C11_IntervalFactors ==
    (pc = "stats" /\ FiniteSeriesAndTextInterval)
        => IF interval.value \in DOMAIN RecognisedTags
           THEN /\ result.kind = "dict"
                /\ Stat("annualized_return")
                     = Mul(Stat("mean_return"), Int2Num(RecognisedTags[interval.value]))
           ELSE result = Raise("ValueError",
                    "Invalid interval factor. Must be one of: daily, monthly, yearly.")

\* a tag spelled with capitals is accepted and annualises a non-zero mean
C11_Witness ==
    /\ pc = "stats" /\ FiniteSeriesAndTextInterval
    /\ interval.value = "DAILY"
    /\ result.kind = "dict"
    /\ Stat("mean_return") # Int2Num(0)
    /\ Stat("annualized_return") = Mul(Stat("mean_return"), Int2Num(252))

(***************************************************************************)
(* Properties of the comparison.                                           *)
(***************************************************************************)
\* every precondition of the comparison: both arguments are series, neither
\* is empty, every value is finite, the dates overlap, and the interval is a
\* string naming a recognised frequency
CompareInputsValid ==
    /\ interval.type = "str"
    /\ portfolio_returns.type = "Series" /\ mkt_returns.type = "Series"
    /\ Len(portfolio_returns.values) >= 1 /\ Len(mkt_returns.values) >= 1
    /\ \A i \in 1..Len(portfolio_returns.values) : portfolio_returns.values[i].k = "fin"
    /\ \A i \in 1..Len(mkt_returns.values) : mkt_returns.values[i].k = "fin"
    /\ \E i \in 1..Len(portfolio_returns.index), j \in 1..Len(mkt_returns.index) :
           portfolio_returns.index[i] = mkt_returns.index[j]
    /\ interval.value \in DOMAIN RecognisedTags

\* C12: when any check of compare_portfolio_with_market_benchmark fails for
\* either input, an error is raised and no statistics have been computed or
\* printed for the portfolio or the benchmark.
C12_ValidationBeforeComputation ==
    (pc = "compare" /\ ~CompareInputsValid)
        => /\ result.kind \in {"TypeError", "ValueError"}
           /\ events = <<>>

\* the portfolio passes every check and only the benchmark holds an infinite
\* value: the call fails with nothing computed
C12_Witness ==
    /\ pc = "compare"
    /\ interval.type = "str" /\ interval.value \in DOMAIN RecognisedTags
    /\ portfolio_returns.type = "Series" /\ mkt_returns.type = "Series"
    /\ Len(portfolio_returns.values) >= 1
    /\ \A i \in 1..Len(portfolio_returns.values) : portfolio_returns.values[i].k = "fin"
    /\ \E i \in 1..Len(mkt_returns.values) : mkt_returns.values[i].k = "inf"
    /\ result.kind = "ValueError"
    /\ events = <<>>

(***************************************************************************)
(* Properties of the factor regression.                                    *)
(***************************************************************************)
\* a call of factor_analysis_regression has returned or raised
Returned == pc \in {"regression", "regression again"}

BothSeries == portfolio_returns.type = "Series" /\ mkt_returns.type = "Series"

EitherEmpty == Len(portfolio_returns.values) = 0 \/ Len(mkt_returns.values) = 0

DateIndexed ==
    portfolio_returns.dtype = "datetime64[ns]" /\ mkt_returns.dtype = "datetime64[ns]"

DatesOf(s) == {s.index[i] : i \in 1..Len(s.index)}

CommonDates == DatesOf(portfolio_returns) \cap DatesOf(mkt_returns)

\* a missing value of either series on a date both series have
MissingOnCommonDate ==
    \/ \E i \in 1..Len(portfolio_returns.index) :
          /\ portfolio_returns.index[i] \in CommonDates
          /\ portfolio_returns.values[i].k = "nan"
    \/ \E i \in 1..Len(mkt_returns.index) :
          /\ mkt_returns.index[i] \in CommonDates
          /\ mkt_returns.values[i].k = "nan"

\* a missing value anywhere in either series, or a date only one of them has
MissingOrUnsharedDate ==
    \/ \E i \in 1..Len(portfolio_returns.values) : portfolio_returns.values[i].k = "nan"
    \/ \E i \in 1..Len(mkt_returns.values) : mkt_returns.values[i].k = "nan"
    \/ DatesOf(portfolio_returns) # DatesOf(mkt_returns)

\* both factor files exist and hold no missing value
FactorsLoad ==
    /\ factor_files.state = "present"
    /\ \A i \in 1..Len(factor_files.values) :
           \A c \in {"Mom", "Mkt_rf", "SMB", "HML", "Rf"} :
               factor_files.values[i][c].k # "nan"

\* the number of dates the two series and the factor table share
JoinedRows == Cardinality(CommonDates \cap DatesOf(factor_files))

PreconditionMessages ==
    {"Both series must have a datetime index.",
     "Both input series must be non-empty.",
     "The input series must have overlapping dates.",
     "Input return series contain missing values. Please clean the data first.",
     "Not enough overlapping data points to run regression."}

\* C13 as stated: the date-typed index is checked first, then non-emptiness,
\* overlap, missing values on the aligned (common) dates and the row count; an
\* empty input without a date-typed index is rejected for the index.
C13_Original ==
    (Returned /\ BothSeries)
        => IF ~DateIndexed
           THEN result = Raise("TypeError", "Both series must have a datetime index.")
           ELSE IF EitherEmpty
           THEN result = Raise("ValueError", "Both input series must be non-empty.")
           ELSE IF CommonDates = {}
           THEN result = Raise("ValueError", "The input series must have overlapping dates.")
           ELSE IF MissingOnCommonDate
           THEN result = Raise("ValueError",
                  "Input return series contain missing values. Please clean the data first.")
           ELSE (FactorsLoad /\ JoinedRows < 5)
                   => result = Raise("ValueError",
                          "Not enough overlapping data points to run regression.")

\* C13: factor_analysis_regression reports the first precondition violated in
\* the order (1) both series non-empty, (2) both carry a date-typed index,
\* (3) the date indices intersect, (4) no value of either series is missing
\* and no date belongs to one series only, (5) at least 5 rows after joining
\* the factor data; when none is violated none of these errors is reported.
C13_CheckOrder ==
    (Returned /\ BothSeries)
        => IF EitherEmpty
           THEN result = Raise("ValueError", "Both input series must be non-empty.")
           ELSE IF ~DateIndexed
           THEN result = Raise("TypeError", "Both series must have a datetime index.")
           ELSE IF CommonDates = {}
           THEN result = Raise("ValueError", "The input series must have overlapping dates.")
           ELSE IF MissingOrUnsharedDate
           THEN result = Raise("ValueError",
                  "Input return series contain missing values. Please clean the data first.")
           ELSE IF FactorsLoad /\ JoinedRows < 5
           THEN result = Raise("ValueError",
                  "Not enough overlapping data points to run regression.")
           ELSE result.msg \notin PreconditionMessages

\* an empty series without a date-typed index is rejected for being empty
C13_Witness ==
    /\ pc = "regression" /\ BothSeries
    /\ EitherEmpty /\ ~DateIndexed
    /\ result = Raise("ValueError", "Both input series must be non-empty.")

\* C14: when the two date indices overlap only partially and neither series
\* has a missing value on a common date, the call does not fail because of
\* the dates only one series has: the regression goes on to the factor data.
C14_InnerJoinAlignment ==
    (/\ Returned /\ BothSeries /\ ~EitherEmpty /\ DateIndexed
     /\ CommonDates # {}
     /\ DatesOf(portfolio_returns) # DatesOf(mkt_returns)
     /\ ~MissingOnCommonDate)
        => /\ result.msg
                # "Input return series contain missing values. Please clean the data first."
           /\ events # <<>>

\* two series on the same dates, every value finite
ValidPair ==
    /\ BothSeries /\ ~EitherEmpty /\ DateIndexed
    /\ DatesOf(portfolio_returns) = DatesOf(mkt_returns)
    /\ \A i \in 1..Len(portfolio_returns.values) : portfolio_returns.values[i].k = "fin"
    /\ \A i \in 1..Len(mkt_returns.values) : mkt_returns.values[i].k = "fin"

\* C15: for a valid pair of series and a factor table that loads, the call
\* returns betas when the join with the factor table has exactly 5 rows and
\* raises ValueError when it has fewer than 5.
C15_FiveRowBoundary ==
    (Returned /\ ValidPair /\ FactorsLoad)
        => /\ JoinedRows = 5 => result.kind = "Series"
           /\ JoinedRows < 5
                => result = Raise("ValueError",
                       "Not enough overlapping data points to run regression.")

\* exactly five joined rows, and betas returned
C15_Witness ==
    /\ pc = "regression" /\ ValidPair /\ FactorsLoad
    /\ JoinedRows = 5
    /\ result.kind = "Series"

\* an input the checks of lines 178-198 reject
InputRejected ==
    \/ ~BothSeries
    \/ EitherEmpty
    \/ ~DateIndexed
    \/ CommonDates = {}
    \/ MissingOrUnsharedDate

Called(name) == \E i \in 1..Len(events) : events[i].call = name

\* C16: a rejection of the inputs happens before any OLS fit is attempted,
\* and every rejection but the row-count one happens before
\* create_factor_dataset is invoked.
C16_RejectBeforeFit ==
    /\ (Returned /\ InputRejected)
          => /\ result.kind \in {"TypeError", "ValueError"}
             /\ ~Called("create_factor_dataset")
             /\ ~Called("OLS.fit")
    /\ (Returned /\ ~InputRejected /\ FactorsLoad /\ JoinedRows < 5)
          => /\ result.kind = "ValueError"
             /\ Called("create_factor_dataset")
             /\ ~Called("OLS.fit")

\* two date-indexed series without a common date: rejected, nothing called
C16_Witness ==
    /\ pc = "regression" /\ BothSeries /\ ~EitherEmpty /\ DateIndexed
    /\ CommonDates = {}
    /\ result = Raise("ValueError", "The input series must have overlapping dates.")
    /\ events = <<>>

\* C17: every successful call returns exactly the four betas keyed Mkt_rf,
\* SMB, HML and Mom, without an intercept entry, whatever the factor table.
C17_FourBetasNoIntercept ==
    (Returned /\ result.kind = "Series")
        => /\ result.index = <<"Mkt_rf", "SMB", "HML", "Mom">>
           /\ Len(result.values) = 4
           /\ \A i \in 1..4 : result.values[i].of = result.index[i]

\* a fit on a sample whose regressors vary, so that an intercept was fitted
\* and then dropped
C17_Witness ==
    /\ pc = "regression" /\ result.kind = "Series"
    /\ Len(result.values[1].X[1]) = 5
    /\ result.index = <<"Mkt_rf", "SMB", "HML", "Mom">>

Above(v, tenths) == v.n * 10 > tenths * v.d

Below(v, tenths) == v.n * 10 < tenths * v.d

FiniteFloat == val.type = "float" /\ val.v.k = "fin"

\* C18: a finite float v is labelled strong-up when v > 0.6, mild-up when
\* 0.3 < v <= 0.6, slight-up when 0.1 < v <= 0.3, strong-down when v < -0.6,
\* mild-down when -0.6 <= v < -0.3, slight-down when -0.3 <= v < -0.1, and
\* neutral when -0.1 <= v <= 0.1.
C18_SevenBands ==
    (pc = "interpret" /\ FiniteFloat)
        => LET v == val.v
           IN  result =
                 Str(IF Above(v, 6) THEN "Strong exposure (up)"
                     ELSE IF Above(v, 3) THEN "Mild exposure (up)"
                     ELSE IF Above(v, 1) THEN "Slight exposure (up)"
                     ELSE IF ~Below(v, -1) THEN "Neutral exposure"
                     ELSE IF ~Below(v, -3) THEN "Slight exposure (down)"
                     ELSE IF ~Below(v, -6) THEN "Mild exposure (down)"
                     ELSE "Strong exposure (down)")

\* the boundary value 0.6 falls in the weaker band
C18_Witness ==
    /\ pc = "interpret" /\ FiniteFloat
    /\ val.v = Fin(6, 10)
    /\ result = Str("Mild exposure (up)")

\* C19 as stated: every finite number, an integer such as 0 or 1 included,
\* gets a label and no error is raised.
C19_Original ==
    (pc = "interpret" /\ val.type \in {"float", "int"} /\ val.v.k = "fin")
        => result.kind = "str"

\* C19: every finite float gets a label and no error is raised; an argument
\* that is not a float, an integer such as 0 or 1 included, raises TypeError.
C19_TotalOverFloats ==
    /\ (pc = "interpret" /\ FiniteFloat) => result.kind = "str"
    /\ (pc = "interpret" /\ val.type # "float")
          => result = Raise("TypeError", "Input value must be floating point number.")

\* the integer 1 is refused
C19_Witness ==
    /\ pc = "interpret"
    /\ val = Value("int", Int2Num(1))
    /\ result.kind = "TypeError"

ReturnOf(df, t, asset) ==
    Int2Num(df.values[t][CHOOSE j \in 1..NCols(df) : df.columns[j] = asset])

\* the sum of f over a set of labels
SumOver(S, f(_)) ==
    LET RECURSIVE sum(_)
        sum(R) == IF R = {} THEN Int2Num(0)
                  ELSE LET a == CHOOSE x \in R : TRUE
                       IN  Add(f(a), sum(R \ {a}))
    IN  sum(S)

\* C25: every entry of the series returned by calculate_mvp_portfolio is the
\* sum, over the assets, of the asset's return on that date times the weight
\* calculate_mvp_weights gives to that asset, the two matched by the asset's
\* label.
C25_WeightedRowSum ==
    (pc = "mvp_portfolio" /\ result.kind = "Series")
        => \A weights \in {calculate_mvp_weights(returns_df)} :
             /\ weights.kind = "Series"
             /\ Len(result.values) = NRows(returns_df)
             /\ \A t \in 1..NRows(returns_df) :
                  LET term(asset) ==
                          Mul(ReturnOf(returns_df, t, asset), Lookup(weights, asset))
                  IN  result.values[t] = SumOver(Labels(returns_df.columns), term)

\* a portfolio over two assets that carry different weights, the columns in
\* the order GOOG, AAPL
C25_Witness ==
    /\ pc = "mvp_portfolio" /\ result.kind = "Series"
    /\ returns_df.columns = <<"GOOG", "AAPL">>
    /\ Lookup(calculate_mvp_weights(returns_df), "GOOG")
         # Lookup(calculate_mvp_weights(returns_df), "AAPL")
    /\ result.values[1] # Int2Num(0)

(***************************************************************************)
(* The drawdown, stated from its definition.                               *)
(***************************************************************************)
\* the running product of (1 + r) over the first t returns of the series
RunningProduct(t) ==
    LET RECURSIVE prod(_)
        prod(i) == IF i = 0 THEN Int2Num(1)
                   ELSE Mul(prod(i - 1), Add(Int2Num(1), portfolio_returns.values[i]))
    IN  prod(t)

\* the greatest running product among the first t
RunningPeak(t) ==
    CHOOSE m \in {RunningProduct(s) : s \in 1..t} :
        \A s \in 1..t : ~Less(m, RunningProduct(s))

\* the running product over its peak, less one
DrawdownAt(t) == Sub(Div(RunningProduct(t), RunningPeak(t)), Int2Num(1))

EveryReturnAboveMinusOne ==
    \A i \in 1..Len(portfolio_returns.values) :
        Less(Int2Num(-1), portfolio_returns.values[i])

\* C26: for every non-empty finite series max_drawdown is the least of the
\* ratios C_t / M_t - 1 (one of them, and none is smaller), with C_t the
\* running product of (1 + r) and M_t the greatest running product up to t.
\* When every return is above -1 it lies in (-1, 0], and it is 0 exactly when
\* no running product is below an earlier one.
C26_MaxDrawdown ==
    (pc = "stats" /\ ValidStatsInput)
        => LET n == Len(portfolio_returns.values)
               md == Stat("max_drawdown")
           IN  /\ result.kind = "dict"
               /\ \E t \in 1..n : md = DrawdownAt(t)
               /\ \A t \in 1..n : ~Less(DrawdownAt(t), md)
               /\ EveryReturnAboveMinusOne
                    => /\ ~Less(Int2Num(0), md)
                       /\ Less(Int2Num(-1), md)
                       /\ (md = Int2Num(0)) <=>
                            (\A s \in 1..n : \A t \in s..n :
                                ~Less(RunningProduct(t), RunningProduct(s)))

\* a series that gains a half, loses a half and gains a half: the drawdown
\* is the half lost from the peak
C26_Witness ==
    /\ pc = "stats" /\ ValidStatsInput /\ EveryReturnAboveMinusOne
    /\ portfolio_returns.values = <<Fin(1, 2), Fin(-1, 2), Fin(1, 2)>>
    /\ Stat("max_drawdown") = Fin(-1, 2)

(***************************************************************************)
(* The sample of the regression.                                           *)
(***************************************************************************)
\* the dates of the sample, in order: those the portfolio series and the
\* factor table share
SampleDates == SortedLabels(DatesOf(portfolio_returns) \cap DatesOf(factor_files))

\* the row of the factor table for a date
FactorsOn(date) ==
    factor_files.values[CHOOSE j \in 1..Len(factor_files.index) :
                            factor_files.index[j] = date]

\* a row of the design matrix without its intercept cell
WithoutIntercept(row) == IF Len(row) = 5 THEN SubSeq(row, 2, 5) ELSE row

\* C27: in every fit the dependent variable is, on each joined date, 100
\* times the portfolio return less the risk-free rate of the factor table;
\* the regressors are the table's Mkt_rf, SMB, HML and Mom as they stand in
\* the table; the market series is in neither.
C27_ExcessReturnSample ==
    (Returned /\ result.kind = "Series")
        => \A b \in 1..Len(result.values) :
             LET y == result.values[b].y
                 X == result.values[b].X
             IN  /\ Len(y) = Len(SampleDates)
                 /\ Len(X) = Len(SampleDates)
                 /\ \A k \in 1..Len(SampleDates) :
                      LET f == FactorsOn(SampleDates[k])
                      IN  /\ y[k] = Sub(Mul(Int2Num(100),
                                            Lookup(portfolio_returns, SampleDates[k])),
                                        f.Rf)
                          /\ WithoutIntercept(X[k]) = <<f.Mkt_rf, f.SMB, f.HML, f.Mom>>

\* a fit whose market series differs from the portfolio series on the sample
\* and whose factor table has an SMB of 4 on day 2
C27_Witness ==
    /\ pc = "regression" /\ result.kind = "Series"
    /\ \E i \in 1..Len(mkt_returns.values) : mkt_returns.values[i] = Inf(1)
    /\ result.values[1].y[2] = Sub(Int2Num(2), Fin(1, 10))
    /\ WithoutIntercept(result.values[1].X[2])[2] = Int2Num(4)

(***************************************************************************)
(* Properties of get_start_date.                                           *)
(***************************************************************************)
\* a decimal number immediately followed by one of the units y, mo, d
WellFormedPeriod(chars) ==
    \E k \in 1..Len(chars) :
        /\ \A i \in 1..k : IsDigit(chars[i])
        /\ SubSeq(chars, k + 1, Len(chars)) \in {<<"y">>, <<"m", "o">>, <<"d">>}

ReadableEnd == in_end.type = "str" /\ to_datetime(in_end.text).ok

\* C22: with a readable end date, get_start_date returns a date exactly for
\* the periods that are a decimal number immediately followed by y, mo or d,
\* and raises ValueError for every other str.
C22_PeriodGrammar ==
    (pc = "start_date" /\ ReadableEnd /\ in_period.type = "str")
        => IF WellFormedPeriod(in_period.text)
           THEN result.kind = "str"
           ELSE result.kind = "ValueError"

(***************************************************************************)
(* Properties of check_validity_tickers.                                   *)
(***************************************************************************)
\* the ticker at a position, without the whitespace around it
Ticker(i) == Strip(tickers.items[i].text)

\* a non-empty list of strs, each non-empty once stripped and made only of
\* letters, digits, '.', '-' and '^'
WellFormedTickers ==
    /\ tickers.type = "list"
    /\ Len(tickers.items) >= 1
    /\ \A i \in 1..Len(tickers.items) :
         /\ tickers.items[i].type = "str"
         /\ Len(Ticker(i)) >= 1
         /\ \A k \in 1..Len(Ticker(i)) : InClass(Ticker(i)[k])

\* the number of lookups due: up to and including the first position whose
\* lookup does not answer True
LookupsDue ==
    IF \A i \in 1..Len(api) : api[i] = "True" THEN Len(api)
    ELSE CHOOSE i \in 1..Len(api) :
             api[i] # "True" /\ \A j \in 1..(i - 1) : api[j] = "True"

\* C23: check_validity_tickers never raises; it returns True exactly for a
\* well-formed list whose every lookup answers True; no lookup is made for a
\* list that is not well formed; the lookups are made in list order, on the
\* stripped tickers, and stop with the first that answers False or raises.
C23_TickerValidation ==
    pc = "tickers"
        => /\ result.kind = "bool"
           /\ result.values[1] =
                (WellFormedTickers /\ \A i \in 1..Len(api) : api[i] = "True")
           /\ ~WellFormedTickers => events = <<>>
           /\ WellFormedTickers =>
                /\ Len(events) = LookupsDue
                /\ \A i \in 1..Len(events) :
                     events[i] = Event("check_valid_ticker_with_API", Ticker(i))

\* three well-formed tickers, one of them typed with blanks around it, the
\* second lookup raising: two lookups made, False returned
C23_Witness ==
    /\ pc = "tickers" /\ WellFormedTickers
    /\ Len(tickers.items) = 3
    /\ tickers.items[1] = Text(<<" ", "C", " ">>)
    /\ api = <<"True", "raise", "True">>
    /\ Len(events) = 2
    /\ events[1].name = <<"C">>
    /\ result = Bool(FALSE)

(***************************************************************************)
(* Properties of analyze_factor_exposures.                                 *)
(***************************************************************************)
\* float betas, all finite, a width of 1..40 and a positive float scale
ValidChartCall ==
    /\ betas.type = "Series" /\ betas.dtype = "float64"
    /\ Len(betas.values) >= 1
    /\ \A i \in 1..Len(betas.values) : IsFinite(betas.values[i])
    /\ width.type = "int" /\ width.v >= 1 /\ width.v <= 40
    /\ scale.type = "float" /\ Less(Int2Num(0), scale.v)

\* the number of blocks the claim gives to a beta, signed
Blocks(value) ==
    Trunc(Mul(Div(Clamp(value, scale.v), scale.v), Int2Num(width.v \div 2)))

\* C28: in every valid call each bar has exactly width characters, with
\* |trunc(clamp(beta, -scale, scale) / scale * (width // 2))| full blocks,
\* standing right of the midpoint for a positive beta and left of it for a
\* negative one, and low blocks elsewhere.
C28_BarShape ==
    (pc = "exposures" /\ ValidChartCall)
        => /\ result = None
           /\ Len(stdout) = Len(betas.values) + 1
           /\ \A i \in 1..Len(betas.values) :
                LET bar == stdout[i + 1].bar
                    mid == width.v \div 2
                    n == Blocks(betas.values[i])
                IN  /\ Len(bar) = width.v
                    /\ \A k \in 1..Len(bar) :
                         (bar[k] = Block.full) <=>
                            \/ n > 0 /\ k > mid /\ k <= mid + n
                            \/ n < 0 /\ k <= mid /\ k > mid + n

(***************************************************************************)
(* Properties of main.                                                     *)
(***************************************************************************)
MainCalled(name) == \E i \in 1..Len(events) : events[i].call = name

LastPrinted == stdout[Len(stdout)].factor

\* C24: no exception leaves main: while main runs nothing has been raised
\* out of it, and once it has ended it has returned None; where a call of
\* main raised, the last line printed is the notice of the handler that
\* caught the exception.
C24_NoExceptionLeavesMain ==
    /\ result.kind \in {"none", "None"}
    /\ pc = "done" => result = None
    /\ (pc = "done" /\ \E i \in 1..Len(events) : events[i].name = "raised")
          => LastPrinted \in {"An unexpected error occurred. Program terminated.",
                              "Failed to download return data. Program terminated."}

\* a benchmark was chosen, the regression raised for want of a factor file,
\* and main has returned
C24_Witness ==
    /\ pc = "done"
    /\ mkt_benchmark_ticker = "^GSPC"
    /\ factor_files.state = "momentum missing"
    /\ events[Len(events)] = Event("factor_analysis_regression", "raised")
    /\ result = None

CallOrder ==
    <<"check_validity_tickers", "fetch_returns", "fetch_benchmark_returns",
      "calculate_mvp_portfolio", "compare_portfolio_with_market_benchmark",
      "factor_analysis_regression", "analyze_factor_exposures">>

\* C29: main makes its calls in one fixed order, each only after the one
\* before it succeeded: no download unless at least two tickers were typed,
\* check_validity_tickers returned True and a benchmark was chosen; no
\* portfolio unless both downloads returned data and the returns have at
\* least 5 rows; no comparison unless the dates overlap; no regression and no
\* chart unless the comparison returned.
C29_GatedOrder ==
    /\ Len(events) <= Len(CallOrder)
    /\ \A i \in 1..Len(events) :
         /\ events[i].call = CallOrder[i]
         /\ i > 1 => events[i - 1].name \in {"True", "returned"}
    /\ MainCalled("fetch_returns")
         => /\ Len(tickers.items) >= 2
            /\ events[1] = Event("check_validity_tickers", "True")
            /\ mkt_benchmark_ticker \in Labels(valid_mkt_benchmarks)
    /\ MainCalled("calculate_mvp_portfolio")
         => /\ ~IsEmptyFrame(returns_df)
            /\ Len(mkt_returns.values) >= 1
            /\ NRows(returns_df) >= 5
    /\ MainCalled("compare_portfolio_with_market_benchmark")
         => Labels(portfolio_returns.index) \cap Labels(mkt_returns.index) # {}
    /\ MainCalled("analyze_factor_exposures")
         => /\ events[5] = Event("compare_portfolio_with_market_benchmark", "returned")
            /\ events[6] = Event("factor_analysis_regression", "returned")

\* a run that went through all seven calls
C29_Witness ==
    /\ pc = "done"
    /\ Len(events) = 7
    /\ events[7] = Event("analyze_factor_exposures", "returned")
    /\ Len(stdout[Len(stdout)].bar) = DefaultWidth

\* the line typed denotes a whole number: decimal digits only, of any script
DenotesChoice(chars) ==
    /\ Len(chars) >= 1
    /\ \A i \in 1..Len(chars) : IsDecimalChar(chars[i])
    /\ int(chars).value \in 1..3

\* C30: at the benchmark prompt a line that denotes 1, 2 or 3 ends the loop
\* with the benchmark of that number chosen; every other line prints Invalid
\* input, leaves everything else as it was, and is followed by a new prompt.
C30_PromptLoop ==
    [][pc = "prompt"
         => IF DenotesChoice(user_input'.text)
            THEN /\ pc' = "download"
                 /\ mkt_benchmark_ticker' = valid_mkt_benchmarks[int(user_input'.text).value]
            ELSE /\ pc' = "prompt"
                 /\ stdout' = Append(stdout, InvalidInput)
                 /\ mkt_benchmark_ticker' = mkt_benchmark_ticker
                 /\ events' = events
                 /\ result' = result]_vars
====
